---------------------------- MODULE Spec2Model ----------------------------
(***************************************************************************)
(* CPTED assessor: the score aggregation engine (scoring.ts), the Push     *)
(* handler of the server (routes/sync.ts) and the device-side Push / Pull  *)
(* (services/api.ts), modelled as state machines over the Local Store      *)
(* (Dexie tables) and the Remote Store (Postgres tables).                  *)
(*                                                                         *)
(* Numbers.  A JavaScript number is an IEEE-754 binary64 value and the     *)
(* remote average_score / overall_score columns are Postgres `real`        *)
(* (binary32).  Both are modelled bit-exactly for the positive values the  *)
(* program computes: a number is <<e, M>>, standing for M * 2^(e-52),      *)
(* where M is the 53-bit significand held as a little-endian sequence of   *)
(* 15-bit limbs (TLC integers are 32 bits wide).  null is <<>>, a nullable *)
(* integer column holds <<>> or <<n>>.                                     *)
(***************************************************************************)
EXTENDS Integers, Sequences, FiniteSets, TLC

VARIABLES
    items,      \* scoring: the ItemScore[] argument of the single-collection functions
    byZone,     \* scoring: the Map<string, ItemScore[]> argument, in iteration order
    out,        \* scoring: the results returned for the current arguments
    phase,      \* scoring: "input" before the functions ran, "done" after
    remote,     \* server: the committed Postgres tables
    req,        \* server: the POST /sync request in hand (body and `now`)
    txStep,     \* server: 0 outside a transaction, else the step about to run
    txDb,       \* server: the tables as the open transaction sees them
    resp,       \* server: the response to the request
    local,      \* device: the Dexie tables of the Local Store
    cli         \* device: where syncAssessment / pullAssessment stand, and
                \*         what the session has done so far

scoringVars == <<items, byZone, out, phase>>
serverVars == <<remote, req, txStep, txDb, resp>>
deviceVars == <<local, cli>>
vars == <<items, byZone, out, phase, remote, req, txStep, txDb, resp, local, cli>>

Null == <<>>
Some(n) == <<n>>

---------------------------------------------------------------------------
(* Natural numbers wider than a TLC integer: limbs of 15 bits, least       *)
(* significant first, no leading zero limb; zero is <<>>.                  *)

LimbBits == 15
Base == 2^LimbBits
Pow2(k) == 2^k

RECURSIVE Trim(_)
Trim(N) == IF N = <<>> THEN <<>>
           ELSE IF N[Len(N)] = 0 THEN Trim(SubSeq(N, 1, Len(N) - 1)) ELSE N

RECURSIVE MulCarry(_, _, _)
MulCarry(N, k, c) ==
    IF N = <<>> THEN (IF c = 0 THEN <<>> ELSE <<c>>)
    ELSE LET v == N[1] * k + c
         IN  <<v % Base>> \o MulCarry(Tail(N), k, v \div Base)

MulSmall(N, k) == Trim(MulCarry(N, k, 0))

RECURSIVE AddCarry(_, _, _)
AddCarry(A, B, c) ==
    IF A = <<>> /\ B = <<>> THEN (IF c = 0 THEN <<>> ELSE <<c>>)
    ELSE LET a == IF A = <<>> THEN 0 ELSE A[1]
             b == IF B = <<>> THEN 0 ELSE B[1]
             v == a + b + c
         IN  <<v % Base>> \o AddCarry(IF A = <<>> THEN <<>> ELSE Tail(A),
                                      IF B = <<>> THEN <<>> ELSE Tail(B),
                                      v \div Base)

AddNat(A, B) == Trim(AddCarry(A, B, 0))

\* long division by a divisor below 2^15, most significant limb first:
\* <<quotient limbs, remainder>>
RECURSIVE DivFrom(_, _, _, _)
DivFrom(N, c, i, r) ==
    IF i = 0 THEN <<<<>>, r>>
    ELSE LET v    == r * Base + N[i]
             rest == DivFrom(N, c, i - 1, v % c)
         IN  <<rest[1] \o <<v \div c>>, rest[2]>>

DivSmall(N, c) == LET d == DivFrom(N, c, Len(N), 0) IN <<Trim(d[1]), d[2]>>

RECURSIVE BitLenSmall(_)
BitLenSmall(n) == IF n = 0 THEN 0 ELSE 1 + BitLenSmall(n \div 2)

BitLen(N) == IF N = <<>> THEN 0
             ELSE LimbBits * (Len(N) - 1) + BitLenSmall(N[Len(N)])

IsOdd(N) == N # <<>> /\ N[1] % 2 = 1

RECURSIVE ShiftLeft(_, _)
ShiftLeft(N, k) ==
    IF k = 0 \/ N = <<>> THEN N
    ELSE IF k >= LimbBits THEN ShiftLeft(<<0>> \o N, k - LimbBits)
    ELSE MulSmall(N, Pow2(k))

---------------------------------------------------------------------------
(* IEEE-754 arithmetic, round to nearest, ties to even.                    *)

DoubleBits == 53
SingleBits == 24
GuardBits == 8

\* The value with p significant bits nearest to N * 2^e0 (plus, when sticky,
\* a nonzero fraction below the unit): <<exponent, p-bit significand>>.
RoundUp(p, q, r, half, sticky, e) ==
    LET Q == IF r > half \/ (r = half /\ (sticky \/ IsOdd(q)))
             THEN AddNat(q, <<1>>) ELSE q
    IN  IF BitLen(Q) > p THEN <<e + 1, DivSmall(Q, 2)[1]>> ELSE <<e, Q>>

RECURSIVE RoundTo(_, _, _, _)
RoundBits(p, N, sticky, e0, L) ==
    IF L <= p THEN <<e0 + L - 1, ShiftLeft(N, p - L)>>
    ELSE IF L - p >= LimbBits
         THEN RoundTo(p, Tail(N), sticky \/ N[1] # 0, e0 + LimbBits)
    ELSE LET d == DivSmall(N, Pow2(L - p))
         IN  RoundUp(p, d[1], d[2], Pow2(L - p - 1), sticky, e0 + L - 1)

RoundTo(p, N, sticky, e0) == RoundBits(p, N, sticky, e0, BitLen(N))

DZero == <<0, <<>>>>

\* the number that an integer literal or an integer column value denotes
Dbl(n) == IF n = 0 THEN DZero
          ELSE RoundTo(DoubleBits, Trim(<<n % Base, n \div Base>>), FALSE, 0)

\* x + y
DAdd(x, y) ==
    IF x[2] = <<>> THEN y
    ELSE IF y[2] = <<>> THEN x
    ELSE LET lo == IF x[1] <= y[1] THEN x ELSE y
             hi == IF x[1] <= y[1] THEN y ELSE x
         IN  RoundTo(DoubleBits,
                     AddNat(ShiftLeft(hi[2], hi[1] - lo[1]), lo[2]),
                     FALSE, lo[1] - (DoubleBits - 1))

\* x / c for an array length c
DDivInt(x, c) ==
    IF x[2] = <<>> THEN DZero
    ELSE LET d == DivSmall(ShiftLeft(x[2], GuardBits), c)
         IN  RoundTo(DoubleBits, d[1], d[2] # 0,
                     x[1] - (DoubleBits - 1) - GuardBits)

\* a number written to a `real` column: the nearest binary32 value
ToReal(x) ==
    IF x = Null \/ x[2] = <<>> THEN x
    ELSE LET r == RoundTo(SingleBits, x[2], FALSE, x[1] - (DoubleBits - 1))
         IN  <<r[1], ShiftLeft(r[2], DoubleBits - SingleBits)>>

\* A `real` column read back by the server: Postgres prints the shortest
\* decimal that identifies the binary32 value and the driver parses that text
\* as a double.  For the values 1 <= x < 10 that a mean of scores can take.
RECURSIVE TimesTen(_, _)
TimesTen(N, n) == IF n = 0 THEN N ELSE TimesTen(MulSmall(N, 10), n - 1)

RECURSIVE FloorShift(_, _)
FloorShift(N, s) ==
    IF N = <<>> THEN <<>>
    ELSE IF s >= LimbBits THEN FloorShift(Tail(N), s - LimbBits)
    ELSE DivSmall(N, Pow2(s))[1]

\* <<quotient, whether a remainder was dropped>> of N / 10^n
RECURSIVE DivTen(_, _, _)
DivTen(N, n, sticky) ==
    IF n = 0 THEN <<N, sticky>>
    ELSE LET d == DivSmall(N, 10) IN DivTen(d[1], n - 1, sticky \/ d[2] # 0)

\* the integer nearest to x * 10^n (a tie is rounded up: no decimal that a
\* tie produces identifies its value, so the tie rule is never observed)
Digits(x, n) ==
    LET s == (DoubleBits - 1) - x[1]
    IN  FloorShift(AddNat(TimesTen(x[2], n), ShiftLeft(<<1>>, s - 1)), s)

\* the binary value with p significant bits nearest to K / 10^n
ParseDecimal(p, K, n) ==
    LET d == DivTen(ShiftLeft(K, DoubleBits + GuardBits), n, FALSE)
        r == RoundTo(p, d[1], d[2], 0 - (DoubleBits + GuardBits))
    IN  <<r[1], ShiftLeft(r[2], DoubleBits - p)>>

MaxRealDigits == 9
RECURSIVE ShortestDecimal(_, _)
ShortestDecimal(x, n) ==
    LET K == Digits(x, n)
    IN  IF n + 1 >= MaxRealDigits \/ ParseDecimal(SingleBits, K, n) = x
        THEN ParseDecimal(DoubleBits, K, n)
        ELSE ShortestDecimal(x, n + 1)

FromReal(x) == IF x = Null \/ x[2] = <<>> THEN x ELSE ShortestDecimal(x, 0)

---------------------------------------------------------------------------
(* Score Aggregation Engine (scoring.ts): the pure functions.              *)

\* items.filter(...) is SelectSeq

IsScored(s) == s.score # Null /\ ~s.is_na

\* variant: an N/A item that stores a score is counted
getScoredItems_ignoreNa(its) ==
    LET HasScore(s) == s.score # Null IN SelectSeq(its, HasScore)

getScoredItems(its) == SelectSeq(its, IsScored)

\* scored.reduce((sum, s) => sum + s.score!, 0)
RECURSIVE ReduceScores(_, _)
ReduceScores(scored, sum) ==
    IF scored = <<>> THEN sum
    ELSE ReduceScores(Tail(scored), DAdd(sum, Dbl(scored[1].score[1])))

calculateAverage(its) ==
    LET scored == getScoredItems(its)
    IN  IF Len(scored) = 0 THEN Null
        ELSE DDivInt(ReduceScores(scored, DZero), Len(scored))

calculatePrincipleAverage(its, principleKey) ==
    LET OfPrinciple(s) == s.principle = principleKey
    IN  calculateAverage(SelectSeq(its, OfPrinciple))

calculateZoneAverage(zoneItems) == calculateAverage(zoneItems)

\* the averages pushed for the map's values, in iteration order
RECURSIVE ZoneAverages(_)
ZoneAverages(entries) ==
    IF entries = <<>> THEN <<>>
    ELSE LET avg == calculateZoneAverage(entries[1].items)
         IN  (IF avg # Null THEN <<avg>> ELSE <<>>) \o ZoneAverages(Tail(entries))

\* averages.reduce((sum, a) => sum + a, 0)
RECURSIVE ReduceSum(_, _)
ReduceSum(averages, sum) ==
    IF averages = <<>> THEN sum
    ELSE ReduceSum(Tail(averages), DAdd(sum, averages[1]))

MeanOf(averages) ==
    IF Len(averages) = 0 THEN Null
    ELSE DDivInt(ReduceSum(averages, DZero), Len(averages))

\* variant: a zone without a mean counts as a zone scoring 0
RECURSIVE ZoneAveragesOrZero(_)
ZoneAveragesOrZero(entries) ==
    IF entries = <<>> THEN <<>>
    ELSE LET avg == calculateZoneAverage(entries[1].items)
         IN  <<IF avg # Null THEN avg ELSE DZero>> \o ZoneAveragesOrZero(Tail(entries))

calculateOverallScore_nullAsZero(itemsByZone) ==
    MeanOf(ZoneAveragesOrZero(itemsByZone))

calculateOverallScore(itemsByZone) == MeanOf(ZoneAverages(itemsByZone))

\* variant: the empty collection is not singled out
isZoneComplete_noEmptyCheck(its) ==
    \A i \in 1..Len(its) : its[i].score # Null \/ its[i].is_na

isZoneComplete(its) ==
    IF Len(its) = 0 THEN FALSE
    ELSE \A i \in 1..Len(its) : its[i].score # Null \/ its[i].is_na

getCompletionCounts(its) ==
    LET IsNa(s)   == s.is_na
        scored    == Len(SelectSeq(its, IsScored))
        na        == Len(SelectSeq(its, IsNa))
        addressed == scored + na
    IN  [total |-> Len(its), scored |-> scored, na |-> na,
         addressed |-> addressed, remaining |-> Len(its) - addressed]

---------------------------------------------------------------------------
(* The checklist template (data/zones.ts), cut to its first zones and      *)
(* principles, and the score buttons (ScoreButtons.tsx).                   *)

ZoneKeyList == <<"street_approach", "front_yard", "side_yards", "rear_yard",
                 "garage_driveway", "exterior_lighting", "windows_interior">>
Principles == {"natural_surveillance", "access_control"}
MinScore == 1
MaxScore == 5
Scores == MinScore..MaxScore

\* an ItemScore record outside any store
SampleItem(score, isNa, principle) ==
    [id |-> 0, assessment_id |-> 0, zone_key |-> ZoneKeyList[1],
     principle |-> principle, item_text |-> "", item_order |-> 0,
     score |-> score, is_na |-> isNa, notes |-> "", photo_ids |-> <<>>]

SeqsUpTo(S, n) == UNION {[1..k -> S] : k \in 0..n}

---------------------------------------------------------------------------
(* SpecItems: the single-collection functions applied to every collection  *)
(* of at most MaxLen items.                                                *)

MaxLen == 3

\* the item values, numbered: every score or none, N/A or not, either principle
ScoreValues == <<Null>> \o [v \in 1..(MaxScore - MinScore + 1) |-> Some(MinScore + v - 1)]
ItemValueCount == Len(ScoreValues) * 4
ItemValueAt(k) ==
    SampleItem(ScoreValues[((k - 1) \div 4) + 1], ((k - 1) \div 2) % 2 = 1,
               IF (k - 1) % 2 = 0 THEN "natural_surveillance" ELSE "access_control")

\* the non-decreasing sequences of at most n numbers in lo..hi
RECURSIVE SortedSeqs(_, _, _)
SortedSeqs(n, lo, hi) ==
    IF n = 0 THEN {<<>>}
    ELSE {<<>>} \cup UNION {{<<k>> \o s : s \in SortedSeqs(n - 1, k, hi)} : k \in lo..hi}

NoOut == [overall |-> Null]

\* the stores while only the pure functions are exercised
EmptyDb == [assessments |-> {}, zone_scores |-> {}, item_scores |-> {}, photos |-> {}]
NoRequest == [body |-> Null, now |-> 0]
NoResponse == [status |-> "none", failedStep |-> 0, synced_at |-> Null]
ServerAtRest ==
    /\ remote = EmptyDb
    /\ req = NoRequest
    /\ txStep = 0
    /\ txDb = EmptyDb
    /\ resp = NoResponse
NoSnapshot == [assessment |-> Null, zone_scores |-> <<>>, item_scores |-> <<>>,
               photos |-> <<>>]
NoReply == [status |-> 0, synced_at |-> Null]
\* the state of the pages: the route, Home's filter, pullingId and
\* overwriteTarget, Summary's syncing
NoUi == [page |-> "home", filter |-> "all", syncing |-> FALSE,
         pullingId |-> Null, overwriteTarget |-> Null]
\* the Summary page's recommendation state: the two lists, the pending
\* debounce timer with the lists it will write, and the lists the user
\* entered last
NoSummary == [mounted |-> FALSE, recommendations |-> <<>>, quickWins |-> <<>>,
              debounce |-> Null, entered |-> [recs |-> <<>>, qw |-> <<>>]]
\* the device between operations.  edits and pushes are the edits and Pushes
\* still to come; attempted, upload, uploaded, marked record what the last
\* Push did, tried, downloaded, events what the last Pull did.
IdleClient ==
    [pc |-> "idle", snap |-> NoSnapshot, todo |-> <<>>, attempted |-> {},
     response |-> NoReply, push |-> "none", pull |-> "none", data |-> NoSnapshot,
     timer |-> Null, captured |-> FALSE, edits |-> 0, pushes |-> 0,
     clean |-> FALSE, upload |-> <<>>, uploaded |-> 0, marked |-> {},
     tried |-> <<>>, downloaded |-> <<>>, events |-> <<>>,
     ui |-> NoUi, running |-> <<>>, waiting |-> <<>>, summary |-> NoSummary]
DeviceAtRest ==
    /\ local = EmptyDb
    /\ cli = IdleClient

\* the two collections the specification works out
ExampleItems ==
    <<SampleItem(Some(5), FALSE, "access_control"),
      SampleItem(Some(4), FALSE, "access_control"),
      SampleItem(Null, FALSE, "access_control"),
      SampleItem(Null, TRUE, "access_control"),
      SampleItem(Some(3), FALSE, "access_control")>>

ExampleNaOnly ==
    <<SampleItem(Null, TRUE, "access_control"),
      SampleItem(Null, TRUE, "access_control")>>

\* the collections of at most MaxLen items, up to the order of the items
\* (a sum of scores is exact in every order), and the two examples
InitItems ==
    /\ \/ \E f \in SortedSeqs(MaxLen, 1, ItemValueCount) :
             items = [i \in DOMAIN f |-> ItemValueAt(f[i])]
       \/ items \in {ExampleItems, ExampleNaOnly}
    /\ byZone = <<>>
    /\ out = NoOut
    /\ phase = "input"
    /\ ServerAtRest
    /\ DeviceAtRest

ComputeItems ==
    /\ phase = "input"
    /\ out' = [avg          |-> calculateAverage(items),
               zoneAvg      |-> calculateZoneAverage(items),
               principleAvg |-> [p \in Principles |->
                                    calculatePrincipleAverage(items, p)],
               scored       |-> getScoredItems(items),
               complete     |-> isZoneComplete(items),
               counts       |-> getCompletionCounts(items)]
    /\ phase' = "done"
    /\ UNCHANGED <<items, byZone>>
    /\ UNCHANGED serverVars
    /\ UNCHANGED deviceVars

NextItems == ComputeItems

SpecItems == InitItems /\ [][NextItems]_vars


\* the items that count: score non-null and is_na false
Qualifying(its) ==
    {i \in 1..Len(its) : its[i].score # Null /\ its[i].is_na = FALSE}

RECURSIVE SumAt(_, _)
SumAt(its, I) ==
    IF I = {} THEN 0
    ELSE LET i == CHOOSE j \in I : TRUE
         IN  its[i].score[1] + SumAt(its, I \ {i})

\* the sum of the scores at I divided by their number, as a number; null for none
MeanAt(its, I) ==
    IF I = {} THEN Null ELSE DDivInt(Dbl(SumAt(its, I)), Cardinality(I))

\* C8: for every collection of items, calculateAverage, calculateZoneAverage
\* and calculatePrincipleAverage return the mean of score over exactly the
\* items with score non-null and is_na false (an N/A item is left out even
\* when it stores a score), and null, never 0, when no item qualifies;
\* [5,4,null,NA,3] gives 4.0 and [NA,NA] gives null.
C8_MeanOverScoredItems ==
    phase = "done" =>
        /\ out.avg = MeanAt(items, Qualifying(items))
        /\ out.zoneAvg = MeanAt(items, Qualifying(items))
        /\ \A p \in Principles :
              out.principleAvg[p] =
                  MeanAt(items, {i \in Qualifying(items) : items[i].principle = p})
        /\ (Qualifying(items) = {}) <=> (out.avg = Null)
        /\ out.avg # DZero
        /\ (items = ExampleItems => out.avg = Dbl(4))
        /\ (items = ExampleNaOnly => out.avg = Null)

C8_Witness ==
    /\ phase = "done"
    /\ \E i \in 1..Len(items) : items[i].is_na /\ items[i].score # Null
    /\ \E i \in 1..Len(items) : items[i].score = Null
    /\ out.avg # Null

\* C9: for every collection of items, isZoneComplete(items) is true iff
\* getCompletionCounts(items) has addressed = total and total > 0, where
\* scored counts the items with score non-null and is_na false, na the items
\* with is_na true, addressed = scored + na, remaining = total - addressed
\* >= 0; it is false for the empty collection and true for a non-empty
\* collection of N/A items only.
C9_CompleteIffAllAddressed ==
    phase = "done" =>
        LET c == out.counts
            n == Len(items)
        IN  /\ c.total = n
            /\ c.scored = Cardinality(Qualifying(items))
            /\ c.na = Cardinality({i \in 1..n : items[i].is_na})
            /\ c.addressed = c.scored + c.na
            /\ c.remaining = c.total - c.addressed
            /\ c.remaining >= 0
            /\ out.complete <=> (c.addressed = c.total /\ c.total > 0)
            /\ (n = 0) => ~out.complete
            /\ (n > 0 /\ \A i \in 1..n : items[i].is_na) => out.complete

C9_Witness ==
    /\ phase = "done"
    /\ Len(items) > 1
    /\ \A i \in 1..Len(items) : items[i].is_na
    /\ out.complete
    /\ out.counts.scored = 0


---------------------------------------------------------------------------
(* SpecOverall: calculateOverallScore applied to maps of at most MaxZones  *)
(* zones of one or three items, in every iteration order, and to          *)
(* the same maps with a zone without scored items added.                   *)

MaxZones == 3
ZoneSizes == {1, 3}

\* a zone of n scored items whose scores add up to sum
ScoredZone(n, sum) ==
    [i \in 1..n |->
        SampleItem(Some((sum \div n) + (IF i <= sum % n THEN 1 ELSE 0)),
                   FALSE, "access_control")]

\* the zones without a scored item: empty, untouched, N/A over a stored score
UnscoredZone(k) ==
    CASE k = 0 -> <<>>
      [] k = 1 -> <<SampleItem(Null, FALSE, "access_control")>>
      [] OTHER -> <<SampleItem(Some(MaxScore), TRUE, "access_control")>>

UnscoredKinds == {<<0, k>> : k \in 0..2}
\* zones of one item, and zones of three items whose mean is not an integer,
\* each score in MinScore..MinScore + 2
ScoredKinds ==
    UNION {{<<n, sum>> : sum \in {t \in (n * MinScore)..(n * (MinScore + 2)) :
                                    n = 1 \/ t % n # 0}} :
           n \in ZoneSizes}
ZoneKinds == UnscoredKinds \cup ScoredKinds

ZoneContent(kind) ==
    IF kind[1] = 0 THEN UnscoredZone(kind[2]) ELSE ScoredZone(kind[1], kind[2])

KindLeq(a, b) == a[1] < b[1] \/ (a[1] = b[1] /\ a[2] <= b[2])

UsedKeys(entries) == {entries[i].key : i \in 1..Len(entries)}

InsertAt(seq, i, e) == SubSeq(seq, 1, i - 1) \o <<e>> \o SubSeq(seq, i, Len(seq))

InitOverall ==
    /\ \E k \in 0..MaxZones : \E f \in [1..k -> ZoneKinds] :
          /\ \A i \in 1..(k - 1) : KindLeq(f[i], f[i + 1])
          /\ byZone = [i \in 1..k |->
                          [key |-> ZoneKeyList[i], items |-> ZoneContent(f[i])]]
    /\ items = <<>>
    /\ out = NoOut
    /\ phase = "input"
    /\ ServerAtRest
    /\ DeviceAtRest

ComputeOverall ==
    /\ phase = "input"
    /\ out' = [overall |-> calculateOverallScore(byZone)]
    /\ phase' = "computed"
    /\ UNCHANGED <<items, byZone>>
    /\ UNCHANGED serverVars
    /\ UNCHANGED deviceVars

\* the same map built in another insertion order: entries i and i+1 exchanged
SwapZones(i) ==
    /\ phase # "input"
    /\ i \in 1..(Len(byZone) - 1)
    /\ byZone' = [byZone EXCEPT ![i] = byZone[i + 1], ![i + 1] = byZone[i]]
    /\ out' = [overall |-> calculateOverallScore(byZone')]
    /\ phase' = "computed"
    /\ UNCHANGED items
    /\ UNCHANGED serverVars
    /\ UNCHANGED deviceVars

\* the same map with one more zone that has no scored item
InsertUnscoredZone(i, kind) ==
    /\ phase # "input"
    /\ Len(byZone) < MaxZones
    /\ i \in 1..(Len(byZone) + 1)
    /\ LET key == CHOOSE z \in {ZoneKeyList[j] : j \in 1..MaxZones}
                                 \ UsedKeys(byZone) : TRUE
       IN  byZone' = InsertAt(byZone, i, [key |-> key, items |-> ZoneContent(kind)])
    /\ out' = [overall |-> calculateOverallScore(byZone')]
    /\ phase' = "extended"
    /\ UNCHANGED items
    /\ UNCHANGED serverVars
    /\ UNCHANGED deviceVars

NextOverall ==
    \/ ComputeOverall
    \/ \E i \in 1..MaxZones : SwapZones(i)
    \/ \E i \in 1..MaxZones : \E kind \in UnscoredKinds : InsertUnscoredZone(i, kind)

SpecOverall == InitOverall /\ [][NextOverall]_vars

HasMean(entry) == Qualifying(entry.items) # {}
ZonesWithMean(entries) == {i \in 1..Len(entries) : HasMean(entries[i])}

\* C10 as stated: calculateOverallScore gives the same result for every
\* ordering of the zones in the map and for the map with zones without a
\* mean added, and null when (and only when) no zone has a mean.
C10_SameForEveryOrdering ==
    /\ [][(phase # "input" /\ phase' # "input") => out'.overall = out.overall]_vars
    /\ [](phase # "input" => ((out.overall = Null) <=> (ZonesWithMean(byZone) = {})))

\* C10 amended: the result is unchanged by adding zones without a mean, is null
\* exactly when no zone has a mean, and is the same for every ordering of
\* the zones when at most two zones have a mean (the sum of three or more
\* means is rounded in the order of the map).
C10_SameUpToSummationOrder ==
    /\ [][(phase # "input" /\ phase' # "input"
           /\ (phase' = "extended" \/ Cardinality(ZonesWithMean(byZone)) <= 2))
          => out'.overall = out.overall]_vars
    /\ [](phase # "input" => ((out.overall = Null) <=> (ZonesWithMean(byZone) = {})))

C10_Witness ==
    /\ phase = "extended"
    /\ Cardinality(ZonesWithMean(byZone)) = 2
    /\ Len(byZone) = 3
    /\ ~HasMean(byZone[2])
    /\ out.overall # Null
    /\ out.overall # calculateZoneAverage(byZone[1].items)


---------------------------------------------------------------------------
(* The Remote Store and POST /api/sync (server routes/sync.ts).  A table   *)
(* is the set of its rows.  A request body is the parsed JSON: a field     *)
(* that may be missing holds <<>> or <<value>>.                            *)

ThisAssessment == "A"
OtherAssessment == "B"

\* x || false, x || '', x || [], x || 'in_progress' on a field of the body
OrFalse(x) == IF x = Null THEN FALSE ELSE x[1]
OrEmptyString(x) == IF x = Null THEN "" ELSE x[1]
OrEmptyList(x) == IF x = Null THEN <<>> ELSE x[1]
OrDefault(x, d) == IF x = Null \/ x = <<"">> THEN d ELSE x[1]

\* the scoring functions the server imports from its services/scoring.js
server_calculateZoneAverage(zoneItems) == calculateZoneAverage(zoneItems)
server_isZoneComplete(zoneItems) == isZoneComplete(zoneItems)
server_calculateOverallScore(itemsByZone) == calculateOverallScore(itemsByZone)

RowsOf(table, assessmentId) == {r \in table : r.assessment_id = assessmentId}
IdsOf(table, assessmentId) == {r.id : r \in RowsOf(table, assessmentId)}

\* the latest timestamp the server has written
RECURSIVE MaxOf(_)
MaxOf(S) ==
    IF S = {} THEN 0
    ELSE LET x == CHOOSE y \in S : TRUE
             m == MaxOf(S \ {x})
         IN  IF x > m THEN x ELSE m
Clock(db) == MaxOf({r.updated_at : r \in db.assessments})

\* tx.delete(table).where(eq(table.assessment_id, assessmentId))
\* variant: the delete removes nothing
DeleteWhere_nothing(table, assessmentId) == table

DeleteWhere(table, assessmentId) == {r \in table : r.assessment_id # assessmentId}

\* tx.insert(table).values(values): the primary key `id` is unique
PrimaryKeyViolated(table, values) ==
    \/ \E i \in DOMAIN values : \E r \in table : r.id = values[i].id
    \/ \E i, j \in DOMAIN values : i # j /\ values[i].id = values[j].id
InsertValues(table, values) == table \cup {values[i] : i \in DOMAIN values}

\* step 1: upsert the assessment row
assessmentData(a, created, now) ==
    [id            |-> a.id,
     created_at    |-> created,
     updated_at    |-> now,
     status        |-> OrDefault(a.status, "in_progress"),
     overall_score |-> ToReal(a.overall_score),
     address       |-> a.address,
     top_recommendations |-> OrEmptyList(a.top_recommendations),
     quick_wins    |-> OrEmptyList(a.quick_wins),
     notes         |-> OrEmptyString(a.notes),
     assessor_signature |-> Null,
     synced_at     |-> Some(now)]
UpsertAssessment(db, body, now) ==
    LET a == body.assessment
        existing == {r \in db.assessments : r.id = a.id}
    IN  [db EXCEPT !.assessments =
            IF existing # {}
            THEN (@ \ existing)
                 \cup {[assessmentData(a, r.created_at, now)
                           EXCEPT !.assessor_signature = r.assessor_signature]
                       : r \in existing}
            ELSE @ \cup {assessmentData(a, IF a.created_at # Null
                                            THEN a.created_at[1] ELSE now, now)}]

\* step 2: the rows inserted into zone_scores
zoneScoreValues(body) ==
    [i \in DOMAIN body.zone_scores |->
        LET zs == body.zone_scores[i]
        IN  [id                |-> zs.id,
             assessment_id     |-> body.assessment.id,
             zone_key          |-> zs.zone_key,
             zone_name         |-> zs.zone_name,
             zone_order        |-> zs.zone_order,
             average_score     |-> ToReal(zs.average_score),
             priority_findings |-> OrEmptyString(zs.priority_findings),
             notes             |-> OrEmptyString(zs.notes),
             completed         |-> OrFalse(zs.completed)]]

\* variant: the items are renumbered by their place in the payload
itemScoreValues_renumbers(body) ==
    [i \in DOMAIN body.item_scores |->
        LET is == body.item_scores[i]
        IN  [id            |-> is.id,
             assessment_id |-> body.assessment.id,
             zone_key      |-> is.zone_key,
             principle     |-> is.principle,
             item_text     |-> is.item_text,
             item_order    |-> i,
             score         |-> is.score,
             is_na         |-> OrFalse(is.is_na),
             notes         |-> OrEmptyString(is.notes),
             photo_ids     |-> OrEmptyList(is.photo_ids)]]

\* step 3: the rows inserted into item_scores
itemScoreValues(body) ==
    [i \in DOMAIN body.item_scores |->
        LET is == body.item_scores[i]
        IN  [id            |-> is.id,
             assessment_id |-> body.assessment.id,
             zone_key      |-> is.zone_key,
             principle     |-> is.principle,
             item_text     |-> is.item_text,
             item_order    |-> is.item_order,
             score         |-> is.score,
             is_na         |-> OrFalse(is.is_na),
             notes         |-> OrEmptyString(is.notes),
             photo_ids     |-> OrEmptyList(is.photo_ids)]]

\* step 4: metadata of the photos that already have a row, found by id
RECURSIVE UpdatePhotos(_, _)
UpdatePhotos(table, photoList) ==
    IF photoList = <<>> THEN table
    ELSE LET photo == photoList[1]
             Updated(r) == [r EXCEPT !.item_score_id = photo.item_score_id,
                                     !.zone_key = photo.zone_key]
         IN  UpdatePhotos({IF r.id = photo.id THEN Updated(r) ELSE r : r \in table},
                          Tail(photoList))

\* step 5: the select returns the rows in an order the database chooses
Orderings(S) ==
    {f \in [1..Cardinality(S) -> S] : \A i, j \in 1..Cardinality(S) : i # j => f[i] # f[j]}

\* the Map built from allItems: keys in order of first appearance
RECURSIVE GroupByZone(_, _)
GroupByZone(allItems, map) ==
    IF allItems = <<>> THEN map
    ELSE LET item == allItems[1]
             at == {k \in 1..Len(map) : map[k].key = item.zone_key}
         IN  GroupByZone(Tail(allItems),
                IF at = {}
                THEN Append(map, [key |-> item.zone_key, items |-> <<item>>])
                ELSE LET k == CHOOSE k \in at : TRUE
                     IN  [map EXCEPT ![k].items = Append(@, item)])

\* for (const [zoneKey, items] of byZone): update the zone rows of that key
RECURSIVE UpdateZoneScores(_, _, _)
UpdateZoneScores(table, assessmentId, map) ==
    IF map = <<>> THEN table
    ELSE LET zoneKey == map[1].key
             avg == ToReal(server_calculateZoneAverage(map[1].items))
             complete == server_isZoneComplete(map[1].items)
         IN  UpdateZoneScores(
                {IF zs.assessment_id = assessmentId /\ zs.zone_key = zoneKey
                 THEN [zs EXCEPT !.average_score = avg, !.completed = complete]
                 ELSE zs : zs \in table},
                assessmentId, Tail(map))

\* variant: the zone rows are recomputed, the overall score sent is kept
RecalculateScores_keepsOverall(db, assessmentId, now, allItems) ==
    [db EXCEPT !.zone_scores =
        UpdateZoneScores(@, assessmentId, GroupByZone(allItems, <<>>))]

RecalculateScores(db, assessmentId, now, allItems) ==
    LET map == GroupByZone(allItems, <<>>)
        overall == ToReal(server_calculateOverallScore(map))
    IN  [db EXCEPT
            !.zone_scores = UpdateZoneScores(@, assessmentId, map),
            !.assessments = {IF r.id = assessmentId
                             THEN [r EXCEPT !.overall_score = overall,
                                            !.synced_at = Some(now)]
                             ELSE r : r \in @}]

\* db.transaction: when the callback throws, nothing it wrote is kept
\* variant: the writes made before the error are kept
Rollback_keepsWrites(committed, working) == working

Rollback(committed, working) == committed

\* the whole transaction, for a request whose every statement succeeds
ReplaceZoneScores(db, body) ==
    [db EXCEPT !.zone_scores =
        InsertValues(DeleteWhere(@, body.assessment.id), zoneScoreValues(body))]
ReplaceItemScores(db, body) ==
    [db EXCEPT !.item_scores =
        InsertValues(DeleteWhere(@, body.assessment.id), itemScoreValues(body))]
\* variant: a true upsert, which inserts the photos it does not find and
\* takes the filename of the request
UpdatePhotoMetadata_upserts(db, body) ==
    [db EXCEPT !.photos =
        {IF \E i \in DOMAIN body.photos : body.photos[i].id = r.id
         THEN [r EXCEPT !.filename = "device.jpg"] ELSE r
         : r \in UpdatePhotos(@, body.photos)}
        \cup {[id |-> body.photos[i].id, assessment_id |-> body.assessment.id,
               item_score_id |-> body.photos[i].item_score_id,
               zone_key |-> body.photos[i].zone_key, blob_path |-> "",
               filename |-> body.photos[i].filename, synced |-> TRUE]
              : i \in {j \in DOMAIN body.photos : body.photos[j].id \notin {r.id : r \in @}}}]
UpdatePhotoMetadata(db, body) ==
    [db EXCEPT !.photos = UpdatePhotos(@, body.photos)]
WrittenBeforeRecalculation(db, body, now) ==
    UpdatePhotoMetadata(
        ReplaceItemScores(
            ReplaceZoneScores(UpsertAssessment(db, body, now), body), body), body)
Accepts(db, body) ==
    /\ ~PrimaryKeyViolated(DeleteWhere(db.zone_scores, body.assessment.id),
                           zoneScoreValues(body))
    /\ ~PrimaryKeyViolated(DeleteWhere(db.item_scores, body.assessment.id),
                           itemScoreValues(body))

---------------------------------------------------------------------------
(* SpecSync: one POST /api/sync for ThisAssessment, statement by           *)
(* statement, against a Remote Store that earlier requests have filled.    *)

MaxSyncItems == 2
\* the zones of the template the request bodies range over
SyncZoneKeys == <<ZoneKeyList[1], ZoneKeyList[2]>>
SyncZones == Len(SyncZoneKeys)
OtherRowId == 0

\* The request bodies.  Each zone is absent, or has a row that carries no
\* aggregate, or a row that carries a stale one; the items are any multiset
\* of at most MaxSyncItems (zone, score, N/A) combinations, with ids 1, 2, ..
\* "zone_id" / "item_id": the first row carries the id of a row of the other
\* assessment; "photos": the body lists two uploaded photos, one of each
\* assessment.
StaleScore == Dbl(MinScore)
ItemMarks ==
    <<[score |-> Null, is_na |-> FALSE],
      [score |-> Some(MaxScore - 1), is_na |-> TRUE],
      [score |-> Some(MaxScore - 1), is_na |-> FALSE],
      [score |-> Some(MaxScore), is_na |-> FALSE]>>
ItemKindCount == Len(ItemMarks) * SyncZones
KindZone(k) == ((k - 1) \div Len(ItemMarks)) + 1
KindMark(k) == ItemMarks[((k - 1) % Len(ItemMarks)) + 1]
ZoneOptions == {"absent", "plain", "stale"}
BodyExtras == {"none", "zone_id", "item_id", "photos"}

BodyItem(id, order, zone, mark) ==
    [id |-> id, zone_key |-> SyncZoneKeys[zone], principle |-> "natural_surveillance",
     item_text |-> "item", item_order |-> order, score |-> mark.score,
     is_na |-> Some(mark.is_na), notes |-> Null, photo_ids |-> Null]
BodyZone(id, zone, option) ==
    [id |-> id, zone_key |-> SyncZoneKeys[zone], zone_name |-> SyncZoneKeys[zone],
     zone_order |-> zone,
     average_score |-> IF option = "stale" THEN StaleScore ELSE Null,
     priority_findings |-> Null, notes |-> Null,
     completed |-> IF option = "stale" THEN Some(TRUE) ELSE Null]
BodyPhoto(id) ==
    [id |-> id, item_score_id |-> Null, zone_key |-> SyncZoneKeys[SyncZones],
     filename |-> "device.jpg"]
BodyAssessment(id, overall) ==
    [id |-> id, status |-> Some("completed"), overall_score |-> overall,
     created_at |-> Null, address |-> "1 Main St", top_recommendations |-> Null,
     quick_wins |-> Null, notes |-> Null, assessor_signature |-> Null]

SyncBody(zoneChoice, kinds, extra) ==
    LET present == {z \in 1..SyncZones : zoneChoice[z] # "absent"}
        Before(z) == Cardinality({y \in present : y < z})
        zoneRows == [i \in 1..Cardinality(present) |->
                        LET z == CHOOSE y \in present : Before(y) = i - 1
                        IN  BodyZone(IF extra = "zone_id" /\ i = 1 THEN OtherRowId ELSE z,
                                     z, zoneChoice[z])]
        itemRows == [i \in DOMAIN kinds |->
                        BodyItem(IF extra = "item_id" /\ i = 1 THEN OtherRowId ELSE i,
                                 i, KindZone(kinds[i]), KindMark(kinds[i]))]
    IN  [assessment  |-> BodyAssessment(ThisAssessment,
                            IF \E z \in present : zoneChoice[z] = "stale"
                            THEN StaleScore ELSE Null),
         zone_scores |-> zoneRows,
         item_scores |-> itemRows,
         photos      |-> IF extra = "photos"
                         THEN <<BodyPhoto(1), BodyPhoto(OtherRowId)>> ELSE <<>>]

SyncBodies ==
    {SyncBody(zc, kinds, extra) :
        zc \in [1..SyncZones -> ZoneOptions],
        kinds \in {f \in SeqsUpTo(1..ItemKindCount, MaxSyncItems) :
                      \A i \in 1..(Len(f) - 1) : f[i] <= f[i + 1]},
        extra \in BodyExtras}

\* the requests served before: one for the other assessment, one for this one
OtherBody ==
    [assessment  |-> BodyAssessment(OtherAssessment, Null),
     zone_scores |-> <<BodyZone(OtherRowId, 1, "plain")>>,
     item_scores |-> <<BodyItem(OtherRowId, 1, 1, ItemMarks[4])>>,
     photos      |-> <<>>]
EarlierBody ==
    [assessment  |-> BodyAssessment(ThisAssessment, Null),
     zone_scores |-> [z \in 1..SyncZones |-> BodyZone(z, z, "plain")],
     item_scores |-> <<BodyItem(1, 1, 1, ItemMarks[3]),
                       BodyItem(MaxSyncItems + 1, 2, SyncZones, ItemMarks[4])>>,
     photos      |-> <<>>]

\* the stores a request can leave behind when every statement succeeds
SyncTransaction(db, body, now) ==
    LET written == WrittenBeforeRecalculation(db, body, now)
    IN  {RecalculateScores(written, body.assessment.id, now, allItems) :
            allItems \in Orderings(RowsOf(written.item_scores, body.assessment.id))}

\* POST /assessments/:assessmentId/photos: the row of an uploaded photo
UploadedPhoto(id, assessmentId) ==
    [id |-> id, assessment_id |-> assessmentId, item_score_id |-> Some(id),
     zone_key |-> ZoneKeyList[1], blob_path |-> "file", filename |-> "photo.jpg",
     synced |-> TRUE]
WithPhoto(db, id, assessmentId) ==
    [db EXCEPT !.photos = @ \cup {UploadedPhoto(id, assessmentId)}]

ScoringAtRest ==
    /\ items = <<>>
    /\ byZone = <<>>
    /\ out = NoOut
    /\ phase = "input"

InitSync ==
    /\ \E dbOther \in SyncTransaction(EmptyDb, OtherBody, Clock(EmptyDb) + 1) :
          LET withOther == WithPhoto(dbOther, OtherRowId, OtherAssessment)
          IN  \/ remote = withOther
              \/ \E dbThis \in SyncTransaction(withOther, EarlierBody,
                                               Clock(withOther) + 1) :
                    remote = WithPhoto(dbThis, 1, ThisAssessment)
    /\ req = NoRequest
    /\ txStep = 0
    /\ txDb = remote
    /\ resp = NoResponse
    /\ ScoringAtRest
    /\ DeviceAtRest

\* the request arrives: `now` is read and the transaction begins
ReceiveSync(body) ==
    /\ txStep = 0
    /\ resp.status = "none"
    /\ req' = [body |-> body, now |-> Clock(remote) + 1]
    /\ txDb' = remote
    /\ txStep' = 1
    /\ UNCHANGED <<remote, resp>>
    /\ UNCHANGED scoringVars
    /\ UNCHANGED deviceVars

\* the callback throws at statement n: the transaction rolls back, next(err)
Abort(n) ==
    /\ remote' = Rollback(remote, txDb)
    /\ txDb' = remote'
    /\ txStep' = 0
    /\ resp' = [status |-> "error", failedStep |-> n, synced_at |-> Null]
    /\ UNCHANGED req
    /\ UNCHANGED scoringVars
    /\ UNCHANGED deviceVars

Proceed(db) ==
    /\ txDb' = db
    /\ txStep' = txStep + 1
    /\ UNCHANGED <<remote, req, resp>>
    /\ UNCHANGED scoringVars
    /\ UNCHANGED deviceVars

StepUpsertAssessment ==
    /\ txStep = 1
    /\ Proceed(UpsertAssessment(txDb, req.body, req.now))

StepReplaceZoneScores ==
    /\ txStep = 2
    /\ IF PrimaryKeyViolated(DeleteWhere(txDb.zone_scores, req.body.assessment.id),
                             zoneScoreValues(req.body))
       THEN Abort(txStep)
       ELSE Proceed(ReplaceZoneScores(txDb, req.body))

StepReplaceItemScores ==
    /\ txStep = 3
    /\ IF PrimaryKeyViolated(DeleteWhere(txDb.item_scores, req.body.assessment.id),
                             itemScoreValues(req.body))
       THEN Abort(txStep)
       ELSE Proceed(ReplaceItemScores(txDb, req.body))

StepUpdatePhotoMetadata ==
    /\ txStep = 4
    /\ Proceed(UpdatePhotoMetadata(txDb, req.body))

StepRecalculateScores ==
    /\ txStep = 5
    /\ \E allItems \in Orderings(RowsOf(txDb.item_scores, req.body.assessment.id)) :
          Proceed(RecalculateScores(txDb, req.body.assessment.id, req.now, allItems))

\* the callback returned: commit, then res.json({success, synced_at})
CommitSync ==
    /\ txStep = 6
    /\ remote' = txDb
    /\ txStep' = 0
    /\ resp' = [status |-> "success", failedStep |-> 0, synced_at |-> Some(req.now)]
    /\ UNCHANGED <<req, txDb>>
    /\ UNCHANGED scoringVars
    /\ UNCHANGED deviceVars

\* a statement (or the commit) fails for a reason of the database's own
StatementFails ==
    /\ txStep \in 1..6
    /\ Abort(txStep)

NextSync ==
    \/ \E body \in SyncBodies : ReceiveSync(body)
    \/ StepUpsertAssessment
    \/ StepReplaceZoneScores
    \/ StepReplaceItemScores
    \/ StepUpdatePhotoMetadata
    \/ StepRecalculateScores
    \/ CommitSync
    \/ StatementFails

SpecSync == InitSync /\ [][NextSync]_vars

\* what the claims say of the committed rows, stated over the tables
ThisRow(db) == CHOOSE r \in db.assessments : r.id = ThisAssessment
ZoneItemsOf(db, assessmentId, zoneKey) ==
    {r \in RowsOf(db.item_scores, assessmentId) : r.zone_key = zoneKey}
ScoredRows(S) == {r \in S : r.score # Null /\ r.is_na = FALSE}
RECURSIVE SumOfRows(_)
SumOfRows(S) ==
    IF S = {} THEN 0
    ELSE LET r == CHOOSE x \in S : TRUE IN r.score[1] + SumOfRows(S \ {r})
\* the mean of score over the rows of S that count, as the column holds it
MeanOfRows(S) ==
    IF ScoredRows(S) = {} THEN Null
    ELSE ToReal(DDivInt(Dbl(SumOfRows(ScoredRows(S))), Cardinality(ScoredRows(S))))
AllAddressed(S) == S # {} /\ \A r \in S : r.score # Null \/ r.is_na
Succeeded == txStep = 0 /\ resp.status = "success"

\* C1: after a committed POST /sync of assessment A, every remote ZoneScore
\* row of A holds the mean of score over A's remote item rows of its zone
\* that have a score and are not N/A (null when there is none) and the
\* completion predicate over those rows, whatever the body carried; also a
\* zone row whose zone has no item row in the body.
C1_EveryZoneRowRecomputed ==
    Succeeded =>
        \A zs \in RowsOf(remote.zone_scores, ThisAssessment) :
            LET rows == ZoneItemsOf(remote, ThisAssessment, zs.zone_key)
            IN  /\ zs.average_score = MeanOfRows(rows)
                /\ zs.completed = AllAddressed(rows)

\* the zones of A that have a mean, and the mean of their means taken in
\* a given order
ZonesHavingMean(db) ==
    {k \in {r.zone_key : r \in RowsOf(db.item_scores, ThisAssessment)} :
        ScoredRows(ZoneItemsOf(db, ThisAssessment, k)) # {}}
ZoneMeanOf(db, k) ==
    LET S == ScoredRows(ZoneItemsOf(db, ThisAssessment, k))
    IN  DDivInt(Dbl(SumOfRows(S)), Cardinality(S))
MeanOfMeans(db, order) ==
    ToReal(MeanOf([i \in DOMAIN order |-> ZoneMeanOf(db, order[i])]))

C3_FailedPushChangesNothing ==
    [][/\ (txStep # 0 /\ txStep' # 0 => remote' = remote)
       /\ (txStep # 0 /\ txStep' = 0 =>
              \/ resp'.status = "error" /\ remote' = remote
              \/ resp'.status = "success" /\ txStep = 6)
       /\ (remote' # remote => resp'.status = "success")]_vars

\* the photo update failed after the body's empty zone list had replaced
\* the zone rows: the committed zone rows are still there
C3_Witness ==
    /\ resp.status = "error"
    /\ resp.failedStep = 4
    /\ Len(req.body.zone_scores) = 0
    /\ Len(req.body.item_scores) > 0
    /\ RowsOf(remote.zone_scores, ThisAssessment) # {}
    /\ IdsOf(remote.item_scores, ThisAssessment)
          # {req.body.item_scores[i].id : i \in DOMAIN req.body.item_scores}

OtherRows(db) ==
    [zone_scores |-> RowsOf(db.zone_scores, OtherAssessment),
     item_scores |-> RowsOf(db.item_scores, OtherAssessment)]
BodyIds(rows) == {rows[i].id : i \in DOMAIN rows}

\* C5: after a committed POST /sync of A the identities of A's remote item
\* rows are exactly those of the body, one row each, the same for the zone
\* rows, and no step changes a zone or item row of another assessment.
C5_ReplacedByIdentity ==
    /\ [](Succeeded =>
            /\ IdsOf(remote.item_scores, ThisAssessment) = BodyIds(req.body.item_scores)
            /\ Cardinality(RowsOf(remote.item_scores, ThisAssessment))
                  = Len(req.body.item_scores)
            /\ IdsOf(remote.zone_scores, ThisAssessment) = BodyIds(req.body.zone_scores)
            /\ Cardinality(RowsOf(remote.zone_scores, ThisAssessment))
                  = Len(req.body.zone_scores))
    /\ [][OtherRows(remote') = OtherRows(remote)]_vars

\* A had rows from an earlier request; the body kept neither its second
\* item nor its second zone row, and they are gone
C5_Witness ==
    /\ Succeeded
    /\ ThisRow(remote).created_at # req.now
    /\ Len(req.body.item_scores) > 0
    /\ Len(req.body.zone_scores) = 1
    /\ (MaxSyncItems + 1) \notin IdsOf(remote.item_scores, ThisAssessment)
    /\ Cardinality(RowsOf(remote.zone_scores, ThisAssessment)) = 1

---------------------------------------------------------------------------
(* The device: the Local Store (db/database.ts), the persistence functions *)
(* of scoring.ts, the Assessment page's edits, and syncAssessment /        *)
(* pullAssessment of services/api.ts.  Timestamps are logical.             *)

\* table.where(...).toArray(): the rows in primary-key order
RECURSIVE SortById(_)
SortById(S) ==
    IF S = {} THEN <<>>
    ELSE LET r == CHOOSE x \in S : \A y \in S : x.id <= y.id
         IN  <<r>> \o SortById(S \ {r})

\* new Date() on the device
DeviceNow(loc) == MaxOf({r.updated_at : r \in loc.assessments}) + 1

\* the checklist the device instantiates: the zone of each item, in order
DeviceZoneKeys == <<ZoneKeyList[1], ZoneKeyList[2]>>
DeviceItemZones == <<1, 1, 1, 2>>
DeviceItemTexts == <<"item 1", "item 2", "item 3", "item 1">>

\* NewAssessment.handleSubmit: the assessment and one zone row per zone
NewAssessmentRows(loc, id, now) ==
    [loc EXCEPT
        !.assessments = @ \cup
            {[id |-> id, created_at |-> now, updated_at |-> now,
              status |-> "in_progress", address |-> "1 Main St",
              overall_score |-> Null, top_recommendations |-> <<>>,
              quick_wins |-> <<>>, notes |-> "", assessor_signature |-> Null,
              synced_at |-> Null]},
        !.zone_scores = @ \cup
            {[id |-> z, assessment_id |-> id, zone_key |-> DeviceZoneKeys[z],
              zone_name |-> DeviceZoneKeys[z], zone_order |-> z,
              average_score |-> Null, priority_findings |-> "", notes |-> "",
              completed |-> FALSE] : z \in DOMAIN DeviceZoneKeys}]

\* uuidv4(): an identity no item row of the store has
FreshItemId(loc, i) == MaxOf({r.id : r \in loc.item_scores}) + i

\* Assessment page, first load: one unscored item per checklist entry,
\* item_order counted from 0 within each zone
InitialItemScores(loc, id) ==
    [loc EXCEPT !.item_scores = @ \cup
        {[id |-> FreshItemId(loc, i), assessment_id |-> id,
          zone_key |-> DeviceZoneKeys[DeviceItemZones[i]],
          principle |-> "natural_surveillance",
          item_text |-> DeviceItemTexts[i],
          item_order |-> Cardinality({j \in 1..(i - 1) :
                                         DeviceItemZones[j] = DeviceItemZones[i]}),
          score |-> Null, is_na |-> FALSE, notes |-> "", photo_ids |-> <<>>]
         : i \in DOMAIN DeviceItemZones}]

\* persistZoneScore: the first zone row of that key gets the zone's aggregates
persistZoneScore(loc, assessmentId, zoneKey, zoneItems) ==
    LET avg == calculateZoneAverage(zoneItems)
        complete == isZoneComplete(zoneItems)
        found == SortById({zs \in loc.zone_scores :
                              zs.assessment_id = assessmentId /\ zs.zone_key = zoneKey})
    IN  IF found = <<>> THEN loc
        ELSE [loc EXCEPT !.zone_scores =
                {IF zs.id = found[1].id
                 THEN [zs EXCEPT !.average_score = avg, !.completed = complete]
                 ELSE zs : zs \in @}]

\* persistOverallScore: the mean of the stored zone averages that are not null
persistOverallScore(loc, assessmentId) ==
    LET zoneScores == SortById(RowsOf(loc.zone_scores, assessmentId))
        HasAverage(zs) == zs.average_score # Null
        found == SelectSeq(zoneScores, HasAverage)
        averages == [i \in DOMAIN found |-> found[i].average_score]
        overall == MeanOf(averages)
    IN  [loc EXCEPT !.assessments =
            {IF a.id = assessmentId THEN [a EXCEPT !.overall_score = overall] ELSE a
             : a \in @}]

\* persistAllScores: every zone that has items, then the overall score
RECURSIVE PersistZones(_, _, _)
PersistZones(loc, assessmentId, map) ==
    IF map = <<>> THEN loc
    ELSE PersistZones(persistZoneScore(loc, assessmentId, map[1].key, map[1].items),
                      assessmentId, Tail(map))
persistAllScores(loc, assessmentId) ==
    LET allItems == SortById(RowsOf(loc.item_scores, assessmentId))
        map == GroupByZone(allItems, <<>>)
    IN  persistOverallScore(PersistZones(loc, assessmentId, map), assessmentId)

\* JSON.stringify of the rows gathered for the request body
AssessmentJson(a) ==
    [id |-> a.id, status |-> Some(a.status), overall_score |-> a.overall_score,
     created_at |-> Some(a.created_at), address |-> a.address,
     top_recommendations |-> Some(a.top_recommendations),
     quick_wins |-> Some(a.quick_wins), notes |-> Some(a.notes),
     assessor_signature |-> a.assessor_signature]
ZoneScoreJson(zs) ==
    [id |-> zs.id, assessment_id |-> zs.assessment_id, zone_key |-> zs.zone_key,
     zone_name |-> zs.zone_name, zone_order |-> zs.zone_order,
     average_score |-> zs.average_score,
     priority_findings |-> Some(zs.priority_findings), notes |-> Some(zs.notes),
     completed |-> Some(zs.completed)]
ItemScoreJson(is) ==
    [id |-> is.id, assessment_id |-> is.assessment_id, zone_key |-> is.zone_key,
     principle |-> is.principle, item_text |-> is.item_text,
     item_order |-> is.item_order, score |-> is.score, is_na |-> Some(is.is_na),
     notes |-> Some(is.notes), photo_ids |-> Some(is.photo_ids)]
\* photos.map(({ blob, ...rest }) => rest)
PhotoJson(ph) ==
    [id |-> ph.id, assessment_id |-> ph.assessment_id,
     item_score_id |-> ph.item_score_id, zone_key |-> ph.zone_key,
     data |-> ph.data, filename |-> ph.filename, synced |-> ph.synced]
SnapshotBody(snap) ==
    [assessment  |-> AssessmentJson(snap.assessment[1]),
     zone_scores |-> [i \in DOMAIN snap.zone_scores |-> ZoneScoreJson(snap.zone_scores[i])],
     item_scores |-> [i \in DOMAIN snap.item_scores |-> ItemScoreJson(snap.item_scores[i])],
     photos      |-> [i \in DOMAIN snap.photos |-> PhotoJson(snap.photos[i])]]

\* POST /assessments/:assessmentId/photos: the row inserted for the upload
photoValues(form, assessmentId) ==
    [id |-> form.id, assessment_id |-> assessmentId,
     item_score_id |-> form.item_score_id, zone_key |-> form.zone_key,
     blob_path |-> "file", filename |-> form.filename, synced |-> TRUE]
\* the statuses the upload can answer with, and the store each leaves
UploadResults(db, form, assessmentId) ==
    IF \/ PrimaryKeyViolated(db.photos, <<photoValues(form, assessmentId)>>)
       \/ assessmentId \notin {a.id : a \in db.assessments}
    THEN {[status |-> 500, db |-> db]}
    ELSE {[status |-> 201,
           db |-> [db EXCEPT !.photos = InsertValues(@, <<photoValues(form, assessmentId)>>)]],
          [status |-> 500, db |-> db]}

\* POST /sync taken as one step: the statuses it can answer with, and the
\* store each leaves (a failed transaction leaves the store as it was)
SyncResults(db, body) ==
    LET now == Clock(db) + 1
    IN  {[status |-> 500, synced_at |-> Null, db |-> db]}
        \cup (IF Accepts(db, body)
              THEN {[status |-> 200, synced_at |-> Some(now), db |-> d] :
                        d \in SyncTransaction(db, body, now)}
              ELSE {})

\* GET /assessments/:id: the JSON of the assessment and of its rows
AssessmentRowJson(a) ==
    [id |-> a.id, created_at |-> a.created_at, updated_at |-> a.updated_at,
     status |-> a.status, address |-> a.address,
     overall_score |-> FromReal(a.overall_score),
     top_recommendations |-> Some(a.top_recommendations),
     quick_wins |-> Some(a.quick_wins), notes |-> Some(a.notes),
     assessor_signature |-> a.assessor_signature, synced_at |-> a.synced_at]
ZoneRowJson(zs) ==
    [id |-> zs.id, assessment_id |-> zs.assessment_id, zone_key |-> zs.zone_key,
     zone_name |-> zs.zone_name, zone_order |-> zs.zone_order,
     average_score |-> FromReal(zs.average_score),
     priority_findings |-> Some(zs.priority_findings), notes |-> Some(zs.notes),
     completed |-> Some(zs.completed)]
ItemRowJson(is) ==
    [id |-> is.id, assessment_id |-> is.assessment_id, zone_key |-> is.zone_key,
     principle |-> is.principle, item_text |-> is.item_text,
     item_order |-> is.item_order, score |-> is.score, is_na |-> Some(is.is_na),
     notes |-> Some(is.notes), photo_ids |-> Some(is.photo_ids)]
PhotoRowJson(ph) ==
    [id |-> ph.id, assessment_id |-> ph.assessment_id,
     item_score_id |-> ph.item_score_id, zone_key |-> ph.zone_key,
     filename |-> ph.filename, synced |-> ph.synced]
\* the lists are in the order the database returns the rows; the device keys
\* zone and item rows by id, so only the order of the photos is kept open
GetAssessment(db, id, photoRows) ==
    LET zones == SortById(RowsOf(db.zone_scores, id))
        its == SortById(RowsOf(db.item_scores, id))
    IN  [assessment  |-> <<AssessmentRowJson(CHOOSE a \in db.assessments : a.id = id)>>,
         zone_scores |-> [i \in DOMAIN zones |-> ZoneRowJson(zones[i])],
         item_scores |-> [i \in DOMAIN its |-> ItemRowJson(its[i])],
         photos      |-> [i \in DOMAIN photoRows |-> PhotoRowJson(photoRows[i])]]

\* pullAssessment, the Dexie transaction: put the assessment, replace the rows
PulledAssessment(data) ==
    LET a == data.assessment[1]
    IN  [id |-> a.id, created_at |-> a.created_at, updated_at |-> a.updated_at,
         status |-> a.status, address |-> a.address,
         overall_score |-> a.overall_score,
         top_recommendations |-> OrEmptyList(a.top_recommendations),
         quick_wins |-> OrEmptyList(a.quick_wins),
         notes |-> OrEmptyString(a.notes),
         assessor_signature |-> a.assessor_signature, synced_at |-> a.synced_at]
PulledZoneScores(data) ==
    {[id |-> z.id, assessment_id |-> z.assessment_id, zone_key |-> z.zone_key,
      zone_name |-> z.zone_name, zone_order |-> z.zone_order,
      average_score |-> z.average_score,
      priority_findings |-> OrEmptyString(z.priority_findings),
      notes |-> OrEmptyString(z.notes), completed |-> OrFalse(z.completed)]
     : z \in {data.zone_scores[i] : i \in DOMAIN data.zone_scores}}
\* variant: the pulled items lose their N/A mark
PulledItemScores_dropsNa(data) ==
    {[id |-> i.id, assessment_id |-> i.assessment_id, zone_key |-> i.zone_key,
      principle |-> i.principle, item_text |-> i.item_text,
      item_order |-> i.item_order, score |-> i.score, is_na |-> FALSE,
      notes |-> OrEmptyString(i.notes), photo_ids |-> OrEmptyList(i.photo_ids)]
     : i \in {data.item_scores[k] : k \in DOMAIN data.item_scores}}

PulledItemScores(data) ==
    {[id |-> i.id, assessment_id |-> i.assessment_id, zone_key |-> i.zone_key,
      principle |-> i.principle, item_text |-> i.item_text,
      item_order |-> i.item_order, score |-> i.score, is_na |-> OrFalse(i.is_na),
      notes |-> OrEmptyString(i.notes), photo_ids |-> OrEmptyList(i.photo_ids)]
     : i \in {data.item_scores[k] : k \in DOMAIN data.item_scores}}
\* bulkPut / put: a row with the same id is replaced
PutRows(table, rows) == {r \in table : r.id \notin {n.id : n \in rows}} \cup rows
StorePulled(loc, id, data) ==
    [loc EXCEPT
        !.assessments = PutRows(@, {PulledAssessment(data)}),
        !.zone_scores = PutRows(DeleteWhere(@, id), PulledZoneScores(data)),
        !.item_scores = PutRows(DeleteWhere(@, id), PulledItemScores(data))]
\* the Photo row stored for a downloaded photo
DownloadedPhoto(meta) ==
    [id |-> meta.id, assessment_id |-> meta.assessment_id,
     item_score_id |-> meta.item_score_id, zone_key |-> meta.zone_key,
     blob |-> Null, data |-> Some("jpeg"), filename |-> meta.filename,
     synced |-> TRUE]

---------------------------------------------------------------------------
(* Spec: one device working on ThisAssessment against a Remote Store that  *)
(* already holds OtherAssessment.  The user scores items, edits notes,     *)
(* takes a photo, marks the assessment complete, pushes and pulls.         *)

MaxEdits == 1
MaxPushes == 1
PhotoId == 1
\* the scores the user taps
TappedScores == {MaxScore - 1, MaxScore}

LocalItem(id) == CHOOSE r \in local.item_scores : r.id = id
LocalItemIds == IdsOf(local.item_scores, ThisAssessment)
Edited == [cli EXCEPT !.edits = @ - 1, !.clean = FALSE]

\* db.item_scores.update(itemId, {score: isNa ? null : score, is_na: isNa})
ScoreItem(loc, itemId, score, isNa) ==
    [loc EXCEPT !.item_scores =
        {IF r.id = itemId
         THEN [r EXCEPT !.score = IF isNa THEN Null ELSE score, !.is_na = isNa]
         ELSE r : r \in @}]

\* What earlier sessions on the Assessment page left behind: the marks given
\* to the items of the checklist, in order, and whether the aggregates were
\* persisted before the page was left.
RECURSIVE ScoreItems(_, _, _)
ScoreItems(loc, marks, i) ==
    IF i > Len(marks) THEN loc
    ELSE ScoreItems(ScoreItem(loc, i, marks[i].score, marks[i].is_na), marks, i + 1)
EarlierMarks ==
    {<<ItemMarks[1], ItemMarks[1], ItemMarks[1], ItemMarks[1]>>,
     <<ItemMarks[3], ItemMarks[3], ItemMarks[4], ItemMarks[4]>>,
     <<ItemMarks[4], [score |-> Null, is_na |-> TRUE], ItemMarks[1], ItemMarks[1]>>}

Init ==
    /\ \E dbOther \in SyncTransaction(EmptyDb, OtherBody, Clock(EmptyDb) + 1) :
          remote = WithPhoto(dbOther, OtherRowId, OtherAssessment)
    /\ req = NoRequest
    /\ txStep = 0
    /\ txDb = EmptyDb
    /\ resp = NoResponse
    /\ ScoringAtRest
    /\ \E marks \in EarlierMarks : \E persisted \in BOOLEAN :
          LET created == InitialItemScores(
                             NewAssessmentRows(EmptyDb, ThisAssessment, 1),
                             ThisAssessment)
              scored == ScoreItems(created, marks, 1)
          IN  local = IF persisted THEN persistAllScores(scored, ThisAssessment)
                      ELSE scored
    /\ cli = [IdleClient EXCEPT !.edits = MaxEdits, !.pushes = MaxPushes]

\* Assessment.handleScoreChange: the item is written, the timer (re)started
handleScoreChange(itemId, score, isNa) ==
    /\ cli.pc = "idle"
    /\ cli.edits > 0
    /\ local' = ScoreItem(local, itemId, score, isNa)
    /\ cli' = [Edited EXCEPT !.timer = Some(LocalItem(itemId).zone_key)]
    /\ UNCHANGED serverVars
    /\ UNCHANGED scoringVars

\* ScoreButtons: tapping the active score clears it, tapping N/A toggles it
TapScore(itemId, value) ==
    LET item == LocalItem(itemId)
        isActive == item.score = Some(value) /\ ~item.is_na
    IN  handleScoreChange(itemId, IF isActive THEN Null ELSE Some(value), FALSE)
TapNa(itemId) == handleScoreChange(itemId, Null, ~LocalItem(itemId).is_na)

\* Assessment.handleNotesChange
handleNotesChange(itemId, notes) ==
    /\ cli.pc = "idle"
    /\ cli.edits > 0
    /\ LocalItem(itemId).notes # notes
    /\ local' = [local EXCEPT !.item_scores =
                    {IF r.id = itemId THEN [r EXCEPT !.notes = notes] ELSE r : r \in @}]
    /\ cli' = Edited
    /\ UNCHANGED serverVars
    /\ UNCHANGED scoringVars

\* the debounce timer fires: the zone that was active, then the overall score
PersistTimerFires ==
    /\ cli.pc = "idle"
    /\ cli.timer # Null
    /\ LET zoneKey == cli.timer[1]
           allItems == SortById(RowsOf(local.item_scores, ThisAssessment))
           InZone(s) == s.zone_key = zoneKey
           zoneItems == SelectSeq(allItems, InZone)
       IN  local' = persistOverallScore(
                        persistZoneScore(local, ThisAssessment, zoneKey, zoneItems),
                        ThisAssessment)
    /\ cli' = [cli EXCEPT !.timer = Null]
    /\ UNCHANGED serverVars
    /\ UNCHANGED scoringVars

\* the Assessment page is left with the timer pending: the timer is cleared
UnmountAssessment ==
    /\ cli.pc = "idle"
    /\ cli.timer # Null
    /\ cli' = [cli EXCEPT !.timer = Null]
    /\ UNCHANGED local
    /\ UNCHANGED serverVars
    /\ UNCHANGED scoringVars

\* the item initialisation effect runs its bulkAdd for every loaded list
ItemsMissing_always(itemScores) == TRUE

\* the item initialisation effect: itemScores.length === 0
ItemsMissing(itemScores) == itemScores = {}

\* the Assessment page is opened: the checklist is instantiated when the
\* assessment has no item row, then persistAllScores
MountAssessment ==
    /\ cli.pc = "idle"
    /\ LET itemScores == RowsOf(local.item_scores, ThisAssessment)
           loaded == IF ItemsMissing(itemScores)
                     THEN InitialItemScores(local, ThisAssessment)
                     ELSE local
       IN  local' = persistAllScores(loaded, ThisAssessment)
    /\ UNCHANGED cli
    /\ UNCHANGED serverVars
    /\ UNCHANGED scoringVars

\* Summary.handleMarkComplete
handleMarkComplete ==
    /\ cli.pc = "idle"
    /\ cli.edits > 0
    /\ local' = [local EXCEPT !.assessments =
                    {IF a.id = ThisAssessment
                     THEN [a EXCEPT !.status = "completed",
                                    !.updated_at = DeviceNow(local)]
                     ELSE a : a \in @}]
    /\ cli' = Edited
    /\ UNCHANGED serverVars
    /\ UNCHANGED scoringVars

\* Summary.handleReopen, behind the button shown for a completed assessment
handleReopen ==
    /\ cli.pc = "idle"
    /\ cli.edits > 0
    /\ \E a \in local.assessments : a.id = ThisAssessment /\ a.status = "completed"
    /\ local' = [local EXCEPT !.assessments =
                    {IF a.id = ThisAssessment
                     THEN [a EXCEPT !.status = "in_progress",
                                    !.updated_at = DeviceNow(local)]
                     ELSE a : a \in @}]
    /\ cli' = Edited
    /\ UNCHANGED serverVars
    /\ UNCHANGED scoringVars

\* savePhoto: the photo row and the item's reference to it, in one transaction
savePhoto(itemScoreId) ==
    /\ cli.pc = "idle"
    /\ ~cli.captured
    /\ cli.edits > 0
    /\ local' = [local EXCEPT
                    !.photos = @ \cup
                        {[id |-> PhotoId, assessment_id |-> ThisAssessment,
                          item_score_id |-> Some(itemScoreId),
                          zone_key |-> LocalItem(itemScoreId).zone_key,
                          blob |-> Some("jpeg"), data |-> Null,
                          filename |-> "photo.jpg", synced |-> FALSE]},
                    !.item_scores =
                        {IF r.id = itemScoreId
                         THEN [r EXCEPT !.photo_ids = Append(@, PhotoId)]
                         ELSE r : r \in @}]
    /\ cli' = [Edited EXCEPT !.captured = TRUE]
    /\ UNCHANGED serverVars
    /\ UNCHANGED scoringVars

\* ChecklistItem.handleDeletePhoto on a thumbnail of the item's photo_ids:
\* deletePhoto removes the photo row and the reference in that item
deletePhoto(photoId, itemScoreId) ==
    /\ cli.pc = "idle"
    /\ \E k \in DOMAIN LocalItem(itemScoreId).photo_ids :
          LocalItem(itemScoreId).photo_ids[k] = photoId
    /\ local' = [local EXCEPT
                    !.photos = {ph \in @ : ph.id # photoId},
                    !.item_scores =
                        {IF r.id = itemScoreId
                         THEN [r EXCEPT !.photo_ids =
                                 SelectSeq(@, LAMBDA id : id # photoId)]
                         ELSE r : r \in @}]
    /\ cli' = [cli EXCEPT !.clean = FALSE]
    /\ UNCHANGED serverVars
    /\ UNCHANGED scoringVars

\* syncAssessment, up to the request: the rows are gathered from the tables
GatherSnapshot ==
    /\ cli.pc = "idle"
    /\ cli.pushes > 0
    /\ LET found == IF ThisAssessment \in {a.id : a \in local.assessments}
                    THEN <<CHOOSE a \in local.assessments : a.id = ThisAssessment>>
                    ELSE <<>>
           snapshot ==
               [assessment  |-> found,
                zone_scores |-> SortById(RowsOf(local.zone_scores, ThisAssessment)),
                item_scores |-> SortById(RowsOf(local.item_scores, ThisAssessment)),
                photos      |-> SortById(RowsOf(local.photos, ThisAssessment))]
           started == [cli EXCEPT !.snap = snapshot, !.attempted = {},
                                  !.response = NoReply, !.pushes = @ - 1,
                                  !.pull = "none", !.clean = TRUE,
                                  !.upload = <<>>, !.uploaded = 0, !.marked = {},
                                  !.tried = <<>>, !.downloaded = <<>>,
                                  !.events = <<>>]
       IN  cli' = IF found = <<>>
                  THEN [started EXCEPT !.push = "failed"]
                  ELSE [started EXCEPT !.pc = "posting", !.push = "running"]
    /\ UNCHANGED local
    /\ UNCHANGED serverVars
    /\ UNCHANGED scoringVars

\* variant: a response with an error status is taken for a success
syncRes_ok_ignored(response) == TRUE

\* Response.ok
syncRes_ok(response) == response.status \in 200..299

\* fetch(POST /sync) settles.  The request may not reach the server; the
\* server answers; the answer may not reach the device (status 0: fetch
\* rejects).  A failure throws; otherwise the photo phase begins.
PostSync ==
    /\ cli.pc = "posting"
    /\ \E reached \in BOOLEAN :
       \E result \in IF reached THEN SyncResults(remote, SnapshotBody(cli.snap))
                     ELSE {[status |-> 0, synced_at |-> Null, db |-> remote]} :
       \E delivered \in BOOLEAN :
          LET response == IF delivered /\ reached
                          THEN [status |-> result.status, synced_at |-> result.synced_at]
                          ELSE NoReply
              NotSynced(ph) == ~ph.synced
          IN  /\ remote' = result.db
              /\ cli' = IF response.status = 0 \/ ~syncRes_ok(response)
                        THEN [cli EXCEPT !.pc = "idle", !.push = "failed",
                                         !.response = response]
                        ELSE [cli EXCEPT !.pc = "uploading", !.response = response,
                                         !.todo = SelectSeq(cli.snap.photos, NotSynced)]
    /\ UNCHANGED local
    /\ UNCHANGED <<req, txStep, txDb, resp>>
    /\ UNCHANGED scoringVars

\* uploadPhoto builds a request from photo.data, else from photo.blob; with
\* neither it returns without a request
HasPayload(photo) == photo.data # Null \/ photo.blob # Null

\* uploadPhoto throws unless the answer is ok
uploadRes_ok(result) == result.status \in 200..299

\* variant: an upload that fails ends the loop
AfterFailedUpload_stops(todo) == <<>>

\* the catch of the upload loop: the failure is logged, the loop goes on
AfterFailedUpload(todo) == Tail(todo)

\* one turn of the upload loop: uploadPhoto, then the photo is marked synced
\* unless uploadPhoto threw
UploadNextPhoto ==
    /\ cli.pc = "uploading"
    /\ cli.todo # <<>>
    /\ LET photo == cli.todo[1]
           form == [id |-> photo.id, item_score_id |-> photo.item_score_id,
                    zone_key |-> photo.zone_key, filename |-> photo.filename]
           Marked == [local EXCEPT !.photos =
                        {IF ph.id = photo.id THEN [ph EXCEPT !.synced = TRUE] ELSE ph
                         : ph \in @}]
           Counted == [cli EXCEPT !.todo = Tail(@), !.uploaded = @ + 1,
                                  !.attempted = @ \cup {photo.id},
                                  !.marked = @ \cup {ph.id : ph \in
                                      {q \in local.photos : q.id = photo.id}}]
       IN  IF ~HasPayload(photo)
           THEN /\ local' = Marked
                /\ cli' = [Counted EXCEPT !.upload = <<>>]
                /\ UNCHANGED remote
           ELSE \E reached \in BOOLEAN :
                \E result \in IF reached
                              THEN UploadResults(remote, form, ThisAssessment)
                              ELSE {[status |-> 0, db |-> remote]} :
                \E delivered \in BOOLEAN :
                   LET sent == [id |-> photo.id, status |-> result.status]
                   IN  /\ remote' = result.db
                       /\ IF delivered /\ uploadRes_ok(result)
                          THEN /\ local' = Marked
                               /\ cli' = [Counted EXCEPT !.upload = <<sent>>]
                          ELSE /\ local' = local
                               /\ cli' = [cli EXCEPT
                                             !.todo = AfterFailedUpload(@),
                                             !.upload = <<sent>>,
                                             !.attempted = @ \cup {photo.id}]
    /\ UNCHANGED <<req, txStep, txDb, resp>>
    /\ UNCHANGED scoringVars

\* variant: the device stamps the time of its own clock
syncedAt_deviceClock(syncData) == Some(DeviceNow(local))

\* const syncedAt = syncData.synced_at
syncedAt(syncData) == syncData.synced_at

\* the loop is over: synced_at, status and updated_at are written
FinishSync ==
    /\ cli.pc = "uploading"
    /\ cli.todo = <<>>
    /\ local' = [local EXCEPT !.assessments =
                    {IF a.id = ThisAssessment
                     THEN [a EXCEPT
                             !.synced_at = syncedAt(cli.response),
                             !.status = IF cli.snap.assessment[1].status = "completed"
                                        THEN "synced"
                                        ELSE cli.snap.assessment[1].status,
                             !.updated_at = DeviceNow(local)]
                     ELSE a : a \in @}]
    /\ cli' = [cli EXCEPT !.pc = "idle", !.push = "ok"]
    /\ UNCHANGED serverVars
    /\ UNCHANGED scoringVars

\* onProgress: the events a Pull hands to its caller
Progress(stage, current, total) == [phase |-> stage, current |-> current, total |-> total]

\* pullAssessment, the fetch: it throws unless the answer arrives and is OK
FetchAssessment ==
    /\ cli.pc = "idle"
    /\ LET begun == [cli EXCEPT !.tried = <<>>, !.downloaded = <<>>,
                                !.events = <<Progress("metadata", 0, 1)>>]
       IN  \E delivered \in BOOLEAN :
             IF delivered /\ ThisAssessment \in {a.id : a \in remote.assessments}
             THEN \E photoRows \in Orderings(RowsOf(remote.photos, ThisAssessment)) :
                     cli' = [begun EXCEPT
                               !.pc = "storing", !.pull = "running",
                               !.events = Append(@, Progress("metadata", 1, 1)),
                               !.data = GetAssessment(remote, ThisAssessment, photoRows)]
             ELSE cli' = [begun EXCEPT !.pull = "failed"]
    /\ UNCHANGED local
    /\ UNCHANGED serverVars
    /\ UNCHANGED scoringVars

\* variant: a transaction that fails keeps what it wrote
DexieTransaction_keepsWrites(before, after, committed) == after

\* db.transaction: its writes are kept when it commits and undone when it fails
DexieTransaction(before, after, committed) == IF committed THEN after ELSE before

\* variant: the photos of the assessment are cleared whatever the answer lists
ClearsPhotos_always(photoMeta) == TRUE

\* the photos of the assessment are cleared when the answer lists a photo
ClearsPhotos(photoMeta) == Len(photoMeta) > 0

\* the Dexie transaction, then the local photos are cleared when the answer
\* lists any; a transaction that fails leaves the tables as they were
StoreAssessment ==
    /\ cli.pc = "storing"
    /\ \E stored \in BOOLEAN :
          LET loc == DexieTransaction(local,
                                     StorePulled(local, ThisAssessment, cli.data),
                                     stored)
          IN  IF stored
              THEN /\ local' = IF ClearsPhotos(cli.data.photos)
                               THEN [loc EXCEPT !.photos = DeleteWhere(@, ThisAssessment)]
                               ELSE loc
                   /\ cli' = [cli EXCEPT !.pc = "downloading", !.todo = cli.data.photos]
              ELSE /\ local' = loc
                   /\ cli' = [cli EXCEPT !.pc = "idle", !.pull = "failed",
                                         !.data = NoSnapshot]
    /\ UNCHANGED serverVars
    /\ UNCHANGED scoringVars

\* variant: a failed download ends the loop
AfterFailedDownload_stops(todo) == <<>>

\* a failed download is skipped: the loop goes on with the next photo
AfterFailedDownload(todo) == Tail(todo)

\* variant: the photo events count from zero
PhotoEventCurrent_fromZero(i) == i

\* the photo event of loop index i: current is i + 1
PhotoEventCurrent(i) == i + 1

\* one turn of the download loop
DownloadNextPhoto ==
    /\ cli.pc = "downloading"
    /\ cli.todo # <<>>
    /\ LET meta == cli.todo[1]
           total == Len(cli.data.photos)
           announced == [cli EXCEPT
                           !.tried = Append(@, meta.id),
                           !.events = Append(@, Progress("photos",
                                                         PhotoEventCurrent(total - Len(cli.todo)),
                                                         total))]
       IN  \E downloaded \in BOOLEAN :
             IF downloaded
             THEN /\ local' = [local EXCEPT
                                 !.photos = PutRows(@, {DownloadedPhoto(meta)})]
                  /\ cli' = [announced EXCEPT !.todo = Tail(@),
                                              !.downloaded = Append(@, meta.id)]
             ELSE /\ local' = local
                  /\ cli' = [announced EXCEPT !.todo = AfterFailedDownload(@)]
    /\ UNCHANGED serverVars
    /\ UNCHANGED scoringVars

\* the 'done' event: pullAssessment returns
FinishPull ==
    /\ cli.pc = "downloading"
    /\ cli.todo = <<>>
    /\ LET total == Len(cli.data.photos)
       IN  cli' = [cli EXCEPT !.pc = "idle", !.pull = "ok", !.data = NoSnapshot,
                             !.events = Append(@, Progress("done", total, total))]
    /\ UNCHANGED local
    /\ UNCHANGED serverVars
    /\ UNCHANGED scoringVars

Next ==
    \/ \E itemId \in LocalItemIds : \E value \in TappedScores : TapScore(itemId, value)
    \/ \E itemId \in LocalItemIds : TapNa(itemId)
    \/ \E itemId \in LocalItemIds : handleNotesChange(itemId, "note")
    \/ PersistTimerFires
    \/ UnmountAssessment
    \/ MountAssessment
    \/ handleMarkComplete
    \/ \E itemId \in LocalItemIds : savePhoto(itemId)
    \/ \E itemId \in LocalItemIds : deletePhoto(PhotoId, itemId)
    \/ GatherSnapshot
    \/ PostSync
    \/ UploadNextPhoto
    \/ FinishSync
    \/ FetchAssessment
    \/ StoreAssessment
    \/ DownloadNextPhoto
    \/ FinishPull

Spec == Init /\ [][Next]_vars

\* ------------------------------------------------------------------------
\* The photo phases of Push and Pull.  The device holds an assessment with up
\* to MaxPhotos photos that were never uploaded, of the kinds the Photo type
\* admits; Push runs up to MaxTransfers times, Pull at any time between.
MaxPhotos == 2
MaxTransfers == 2

\* Photo: `data` (a base64 data URL), the deprecated `blob`, both optional in
\* what uploadPhoto accepts
PhotoKinds == {"inline", "legacy", "bare"}
CapturedPhoto(id, kind) ==
    [id |-> id, assessment_id |-> ThisAssessment, item_score_id |-> Null,
     zone_key |-> DeviceZoneKeys[1],
     blob |-> IF kind = "legacy" THEN Some("jpeg") ELSE Null,
     data |-> IF kind = "inline" THEN Some("jpeg") ELSE Null,
     filename |-> "photo.jpg", synced |-> FALSE]

InitPhotos ==
    /\ \E dbOther \in SyncTransaction(EmptyDb, OtherBody, Clock(EmptyDb) + 1) :
          remote = WithPhoto(dbOther, OtherRowId, OtherAssessment)
    /\ req = NoRequest
    /\ txStep = 0
    /\ txDb = EmptyDb
    /\ resp = NoResponse
    /\ ScoringAtRest
    /\ \E n \in 0..MaxPhotos : \E kinds \in [1..n -> PhotoKinds] :
          LET created == persistAllScores(
                             InitialItemScores(
                                 NewAssessmentRows(EmptyDb, ThisAssessment, 1),
                                 ThisAssessment),
                             ThisAssessment)
          IN  local = [created EXCEPT
                         !.photos = {CapturedPhoto(i, kinds[i]) : i \in 1..n}]
    /\ cli = [IdleClient EXCEPT !.pushes = MaxTransfers]

NextPhotos ==
    \/ GatherSnapshot
    \/ PostSync
    \/ UploadNextPhoto
    \/ FinishSync
    \/ FetchAssessment
    \/ StoreAssessment
    \/ DownloadNextPhoto
    \/ FinishPull

SpecPhotos == InitPhotos /\ [][NextPhotos]_vars

\* what the claims say of the device, stated over its tables
LocalRow == CHOOSE a \in local.assessments : a.id = ThisAssessment
LocalItems == SortById(RowsOf(local.item_scores, ThisAssessment))
UnsyncedPhotos == {ph \in RowsOf(local.photos, ThisAssessment) : ~ph.synced}

\* C4: when the metadata phase of a Push fails (fetch rejects, or the
\* response is not OK), syncAssessment throws and that step leaves every
\* table of the Local Store as it was; a Push that failed has called
\* uploadPhoto for no photo.
C4_FailedPushLeavesLocalStore ==
    /\ [][(cli.pc = "posting" /\ cli'.response.status \notin 200..299)
          => (cli'.pc = "idle" /\ cli'.push = "failed" /\ local' = local
              /\ cli'.attempted = {})]_vars
    /\ [](cli.push = "failed" => cli.attempted = {})

\* a Push that was answered with an error status while the snapshot held a
\* photo still to be uploaded
C4_Witness ==
    /\ cli.pc = "idle"
    /\ cli.push = "failed"
    /\ cli.response.status = 500
    /\ \E i \in DOMAIN cli.snap.photos : ~cli.snap.photos[i].synced
    /\ UnsyncedPhotos # {}
    /\ LocalRow.synced_at = Null

\* C6: after a successful Push followed by a successful Pull with no edit
\* since the Push gathered its snapshot, the local ItemScore rows of the
\* assessment are the rows the Push gathered: same ids, same fields.
C6_PushThenPullKeepsItems ==
    (cli.pc = "idle" /\ cli.push = "ok" /\ cli.pull = "ok" /\ cli.clean)
        => LocalItems = cli.snap.item_scores

\* such a round trip with a scored item, an N/A item and an item with a photo
C6_Witness ==
    /\ cli.pc = "idle"
    /\ cli.push = "ok"
    /\ cli.pull = "ok"
    /\ cli.clean
    /\ \E i \in DOMAIN LocalItems : LocalItems[i].is_na
    /\ \E i \in DOMAIN LocalItems : LocalItems[i].score # Null
    /\ \E i \in DOMAIN LocalItems : LocalItems[i].photo_ids # <<>>

\* the snapshot a Push gathered holds the aggregates a full recomputation
\* (persistAllScores) writes
SnapshotStore ==
    [assessments |-> {cli.snap.assessment[i] : i \in DOMAIN cli.snap.assessment},
     zone_scores |-> {cli.snap.zone_scores[i] : i \in DOMAIN cli.snap.zone_scores},
     item_scores |-> {cli.snap.item_scores[i] : i \in DOMAIN cli.snap.item_scores},
     photos      |-> {}]
SnapshotRecomputed == persistAllScores(SnapshotStore, ThisAssessment) = SnapshotStore

\* C7 as stated: when the aggregates the device stored are those of a full
\* recomputation and the Push of them succeeded, every remote zone row has
\* the average_score and completed of the local zone row, and the remote
\* overall_score is the local overall_score.
C7_DeviceAndServerAgree ==
    (cli.pc = "idle" /\ cli.push = "ok" /\ SnapshotRecomputed)
        => /\ \A zs \in RowsOf(remote.zone_scores, ThisAssessment) :
                \E ls \in SnapshotStore.zone_scores :
                    /\ ls.id = zs.id
                    /\ ls.average_score = zs.average_score
                    /\ ls.completed = zs.completed
           /\ ThisRow(remote).overall_score = cli.snap.assessment[1].overall_score

\* ------------------------------------------------------------------------
\* The Assessment page while it stays mounted: the aggregates were persisted
\* when the page was opened, then up to MaxPageEdits score buttons are tapped,
\* on items of any zone (the zone of the tapped item is the active zone), and
\* the debounce timer fires whenever it is left to.
MaxPageEdits == 2

InitPage ==
    /\ \E dbOther \in SyncTransaction(EmptyDb, OtherBody, Clock(EmptyDb) + 1) :
          remote = WithPhoto(dbOther, OtherRowId, OtherAssessment)
    /\ req = NoRequest
    /\ txStep = 0
    /\ txDb = EmptyDb
    /\ resp = NoResponse
    /\ ScoringAtRest
    /\ \E marks \in EarlierMarks :
          LET created == InitialItemScores(
                             NewAssessmentRows(EmptyDb, ThisAssessment, 1),
                             ThisAssessment)
          IN  local = persistAllScores(ScoreItems(created, marks, 1), ThisAssessment)
    /\ cli = [IdleClient EXCEPT !.edits = MaxPageEdits]

NextPage ==
    \/ \E itemId \in LocalItemIds : \E value \in TappedScores : TapScore(itemId, value)
    \/ \E itemId \in LocalItemIds : TapNa(itemId)
    \/ PersistTimerFires

SpecPage == InitPage /\ [][NextPage]_vars

\* ------------------------------------------------------------------------
\* Claims about the photo phases
LocalPhotos == RowsOf(local.photos, ThisAssessment)
RemotePhotoIds == {ph.id : ph \in RowsOf(remote.photos, ThisAssessment)}
BecameSynced ==
    {ph.id : ph \in {q \in LocalPhotos :
                        /\ ~q.synced
                        /\ \E n \in RowsOf(local'.photos, ThisAssessment) :
                              n.id = q.id /\ n.synced}}

UploadForm(photo) ==
    [id |-> photo.id, item_score_id |-> photo.item_score_id,
     zone_key |-> photo.zone_key, filename |-> photo.filename]

\* C12 as stated: the upload is retry-safe.  Whenever a local photo is still
\* unsynced although the Remote Store already holds its row (an earlier
\* upload was accepted and the answer never arrived), the server can answer
\* the repeated POST with a success, leaving exactly one remote row of that
\* id, so that a later Push can mark the photo synced.
C12_RepeatedUploadCanSucceed ==
    \A ph \in LocalPhotos :
        (~ph.synced /\ HasPayload(ph) /\ ph.id \in RemotePhotoIds)
            => \E result \in UploadResults(remote, UploadForm(ph), ThisAssessment) :
                  /\ result.status \in 200..299
                  /\ Cardinality({r \in result.db.photos : r.id = ph.id}) = 1

\* the photos of the snapshot that were not marked synced, in snapshot order
SnapUnsynced == SelectSeq(cli.snap.photos, LAMBDA ph : ~ph.synced)
SeqIds(rows) == {rows[i].id : i \in DOMAIN rows}
RemoteMetadata == <<remote.assessments, remote.zone_scores, remote.item_scores>>

\* C13: once the metadata phase of a Push succeeded, uploadPhoto is called for
\* every photo the snapshot held unsynced, one at a time in snapshot order;
\* an upload that fails leaves the remote assessment, zone and item rows as
\* they are and the loop goes on with the next photo; the Push ends in
\* success, with photosUploaded the number of photos it marked synced.
C13_FailedUploadIsSkipped ==
    /\ [][(cli.pc = "uploading" /\ cli'.pc = "uploading")
             => /\ cli.todo # <<>>
                /\ cli'.attempted = cli.attempted \cup {cli.todo[1].id}
                /\ cli.todo[1].id \notin cli.attempted
                /\ cli.todo[1] = SnapUnsynced[Cardinality(cli.attempted) + 1]
                /\ remote'.assessments = remote.assessments
                /\ remote'.zone_scores = remote.zone_scores
                /\ remote'.item_scores = remote.item_scores
                /\ cli'.push = "running"]_vars
    /\ [][(cli.pc = "uploading" /\ cli'.pc # "uploading")
             => /\ cli'.pc = "idle"
                /\ cli'.push = "ok"
                /\ cli.attempted = SeqIds(SnapUnsynced)]_vars
    /\ [](cli.push = "ok" => /\ cli.attempted = SeqIds(SnapUnsynced)
                             /\ cli.uploaded = Cardinality(cli.marked))

\* a Push ended in success although the upload of its first photo failed; the
\* second photo was uploaded and marked
C13_Witness ==
    /\ cli.pc = "idle"
    /\ cli.push = "ok"
    /\ cli.pull = "none"
    /\ Len(SnapUnsynced) = 2
    /\ cli.uploaded = 1
    /\ cli.marked = {SnapUnsynced[2].id}
    /\ cli.upload # <<>> /\ cli.upload[1].status = 201
    /\ \E ph \in LocalPhotos : ph.id = SnapUnsynced[1].id /\ ~ph.synced /\ HasPayload(ph)
    /\ ThisAssessment \in {a.id : a \in remote.assessments}

\* C14 as stated: the body a Push sends to POST /sync holds no binary payload
\* of a photo, neither the inline `data` string nor the legacy `blob`.
C14_SyncBodyHasNoBinary ==
    cli.pc = "posting"
        => LET body == SnapshotBody(cli.snap)
           IN  \A i \in DOMAIN body.photos :
                  /\ "blob" \notin DOMAIN body.photos[i]
                  /\ body.photos[i].data = Null

\* ------------------------------------------------------------------------
\* C15: step 4 of the Push transaction creates no Photo row and deletes none,
\* and leaves blob_path, filename, assessment_id and synced of every row as
\* they were; of a row whose id the body names only item_score_id and
\* zone_key may change, and a row whose id the body does not name is left
\* whole.  What a committed Push changes in the photo table is no more.
PhotoFrame(before, after, body) ==
    /\ {r.id : r \in after} = {r.id : r \in before}
    /\ Cardinality(after) = Cardinality(before)
    /\ \A r \in before : \E n \in after :
          /\ n.id = r.id
          /\ n.assessment_id = r.assessment_id
          /\ n.blob_path = r.blob_path
          /\ n.filename = r.filename
          /\ n.synced = r.synced
          /\ (\A i \in DOMAIN body.photos : body.photos[i].id # r.id) => n = r
C15_PhotoStepWritesMetadataOnly ==
    /\ [][(txStep = 4 /\ txStep' = 5)
             => PhotoFrame(txDb.photos, txDb'.photos, req.body)]_vars
    /\ [][(txStep = 6 /\ txStep' = 0)
             => PhotoFrame(remote.photos, remote'.photos, req.body)]_vars

\* step 4 has run for a body naming a photo the server does not know and one
\* it knows: no row was created for the first, the second has the zone_key of
\* the body and the filename it had
C15_Witness ==
    /\ txStep = 5
    /\ \E i \in DOMAIN req.body.photos : req.body.photos[i].id \notin {r.id : r \in txDb.photos}
    /\ \E i \in DOMAIN req.body.photos : \E r \in txDb.photos :
          /\ r.id = req.body.photos[i].id
          /\ r.zone_key = req.body.photos[i].zone_key
          /\ r.filename # req.body.photos[i].filename
          /\ \E o \in remote.photos : o.id = r.id /\ o.zone_key # r.zone_key

\* ------------------------------------------------------------------------
\* C16: a Pull that fails at the fetch, or while the transaction applies the
\* metadata, ends with an error and leaves every local table (assessments,
\* zone scores, item scores, photos) as it was; nothing is written, and no
\* photo deleted, before the transaction has committed; a failed Pull has
\* downloaded nothing.
C16_FailedPullLeavesLocalStore ==
    /\ [][(cli.pc \in {"idle", "storing"} /\ cli'.pull = "failed")
             => (local' = local /\ cli'.pc = "idle")]_vars
    /\ [][(cli.pc = "idle" /\ cli'.pc = "storing") => local' = local]_vars
    /\ [](cli.pull = "failed" => (cli.tried = <<>> /\ cli.downloaded = <<>>))

\* a Pull failed while applying metadata that differ from the local rows and
\* list a photo, the device holding a photo that was never uploaded
C16_Witness ==
    /\ cli.pc = "idle"
    /\ cli.pull = "failed"
    /\ Len(cli.events) = 2
    /\ RemotePhotoIds # {}
    /\ \E ph \in LocalPhotos : ~ph.synced /\ ph.id \notin RemotePhotoIds
    /\ ThisAssessment \in {a.id : a \in remote.assessments}

\* the ids of the photos the fetched answer lists, in list order
ListedIds == [i \in DOMAIN cli.data.photos |-> cli.data.photos[i].id]
StoredByPull == {ph \in LocalPhotos : \E i \in DOMAIN cli.downloaded : cli.downloaded[i] = ph.id}

C18_PullReplacesLocalPhotos ==
    (cli.pc = "idle" /\ cli.pull = "ok") => LocalPhotos = StoredByPull

\* the progress events of a Pull that listed `total` photos and got as far as
\* announcing `tried` of them
ExpectedEvents(total, tried) ==
    <<Progress("metadata", 0, 1), Progress("metadata", 1, 1)>>
    \o [i \in 1..tried |-> Progress("photos", i, total)]
DoneEvents == {i \in DOMAIN cli.events : cli.events[i].phase = "done"}

\* C19: a Pull that ended in success has emitted exactly one 'done' event, as
\* its last event and after a photo event for every listed photo; before it
\* come the two metadata events, then the photo events with current running
\* 1, 2, .. total and no further; while a Pull runs, and after it failed, no
\* 'done' event has been emitted.
C19_ProgressEvents ==
    /\ [][(cli.pc = "downloading" /\ cli'.pc = "idle")
             => LET total == Len(cli.data.photos)
                IN  /\ cli'.pull = "ok"
                    /\ cli'.events = Append(ExpectedEvents(total, total),
                                            Progress("done", total, total))
                    /\ Len(cli.tried) = total]_vars
    /\ [](cli.pull = "ok"
             => /\ DoneEvents = {Len(cli.events)}
                /\ \A i \in DOMAIN cli.events :
                      /\ cli.events[i].current <= cli.events[i].total
                      /\ (i > 2 /\ i < Len(cli.events))
                            => /\ cli.events[i].phase = "photos"
                               /\ cli.events[i].current = i - 2)
    /\ [](cli.pull \in {"running", "failed"}
             => /\ DoneEvents = {}
                /\ \E n \in 0..Len(cli.data.photos) :
                      cli.events \in {ExpectedEvents(Len(cli.data.photos), n),
                                      <<Progress("metadata", 0, 1)>>})

\* a Pull of two photos ended in success: five events, the last one 'done'
C19_Witness ==
    /\ cli.pc = "idle"
    /\ cli.pull = "ok"
    /\ Len(cli.events) = 5
    /\ cli.events[5] = Progress("done", 2, 2)
    /\ cli.events[4] = Progress("photos", 2, 2)
    /\ Len(cli.downloaded) = 1

\* ------------------------------------------------------------------------
\* C20 as stated: on the mounted Assessment page, whenever no debounce timer
\* is pending (the user stopped editing and the delay elapsed), the stored
\* average_score and completed of every zone and the stored overall_score
\* are what the engine computes from the current local items.  Every zone
\* was current when the page was opened, so a zone that is not is one that
\* had an item edited.
C20_DebouncedAggregatesAreCurrent ==
    cli.timer = Null => persistAllScores(local, ThisAssessment) = local

\* ------------------------------------------------------------------------
\* C28 as stated: a Push of ThisAssessment changes no remote Photo row of
\* another assessment, neither in step 4 of the transaction nor at the
\* commit, whatever photo identities the body names.
OtherPhotos(table) == {r \in table : r.assessment_id # ThisAssessment}
C28_PushKeepsOtherPhotos ==
    /\ [][(txStep = 4 /\ txStep' = 5)
             => OtherPhotos(txDb'.photos) = OtherPhotos(txDb.photos)]_vars
    /\ [][(txStep = 6 /\ txStep' = 0)
             => OtherPhotos(remote'.photos) = OtherPhotos(remote.photos)]_vars

\* ------------------------------------------------------------------------
\* The pages and the transfers they start.  cli.running lists the calls of
\* syncAssessment and pullAssessment that have started and not finished, each
\* with the identity it works on and whether the component that started it
\* is still mounted; what the calls do to the stores is left out here.
MaxInFlight == 2
ServerListIds == {ThisAssessment, OtherAssessment}
LocalIds == {a.id : a \in local.assessments}
Started(op, id) == [op |-> op, id |-> id, mounted |-> TRUE]
RemoveAt(seq, i) == [k \in 1..(Len(seq) - 1) |-> IF k < i THEN seq[k] ELSE seq[k + 1]]

InitUi ==
    /\ \E dbOther \in SyncTransaction(EmptyDb, OtherBody, Clock(EmptyDb) + 1) :
          remote = WithPhoto(dbOther, OtherRowId, OtherAssessment)
    /\ req = NoRequest
    /\ txStep = 0
    /\ txDb = EmptyDb
    /\ resp = NoResponse
    /\ ScoringAtRest
    /\ \E marks \in EarlierMarks :
          LET created == InitialItemScores(
                             NewAssessmentRows(EmptyDb, ThisAssessment, 1),
                             ThisAssessment)
          IN  local = persistAllScores(ScoreItems(created, marks, 1), ThisAssessment)
    /\ cli = IdleClient

UiStep(ui, running) ==
    /\ cli' = [cli EXCEPT !.ui = ui, !.running = running]
    /\ UNCHANGED local
    /\ UNCHANGED serverVars
    /\ UNCHANGED scoringVars

\* a route change: the page left is unmounted, the page entered starts from
\* its useState defaults
Navigate(page) ==
    /\ page # cli.ui.page
    /\ cli.ui.overwriteTarget = Null
    /\ \/ cli.ui.page = "home" /\ page = "assessment" /\ cli.ui.filter # "server"
       \/ cli.ui.page = "assessment"
       \/ cli.ui.page = "summary"
    /\ UiStep([NoUi EXCEPT !.page = page],
              [i \in DOMAIN cli.running |-> [cli.running[i] EXCEPT !.mounted = FALSE]])

\* Home: the filter tabs
setFilter(tab) ==
    /\ cli.ui.page = "home"
    /\ cli.ui.overwriteTarget = Null
    /\ tab # cli.ui.filter
    /\ UiStep([cli.ui EXCEPT !.filter = tab], cli.running)

\* Summary.handleSync, behind the button's disabled={syncing || overall === null}
handleSync ==
    /\ cli.ui.page = "summary"
    /\ ~cli.ui.syncing
    /\ LocalRow.overall_score # Null
    /\ Len(cli.running) < MaxInFlight
    /\ UiStep([cli.ui EXCEPT !.syncing = TRUE],
              Append(cli.running, Started("push", ThisAssessment)))

\* Home.handlePull, behind the card's disabled={disabled || pulling}: an
\* assessment held locally asks for confirmation first
handlePull(id) ==
    /\ cli.ui.page = "home"
    /\ cli.ui.filter = "server"
    /\ cli.ui.pullingId = Null
    /\ cli.ui.overwriteTarget \in {Null, Some(id)}
    /\ IF id \in LocalIds /\ cli.ui.overwriteTarget # Some(id)
       THEN UiStep([cli.ui EXCEPT !.overwriteTarget = Some(id)], cli.running)
       ELSE /\ Len(cli.running) < MaxInFlight
            /\ UiStep([cli.ui EXCEPT !.overwriteTarget = Null, !.pullingId = Some(id)],
                      Append(cli.running, Started("pull", id)))

\* the overwrite dialog: Replace calls handlePull(overwriteTarget)
ConfirmOverwrite ==
    /\ cli.ui.overwriteTarget # Null
    /\ handlePull(cli.ui.overwriteTarget[1])
CancelOverwrite ==
    /\ cli.ui.page = "home"
    /\ cli.ui.overwriteTarget # Null
    /\ UiStep([cli.ui EXCEPT !.overwriteTarget = Null], cli.running)

\* a transfer settles: the finally block resets the flag of the component
\* that started it, if that component is still mounted
TransferSettles(i) ==
    /\ i \in DOMAIN cli.running
    /\ LET t == cli.running[i]
           ui == IF ~t.mounted THEN cli.ui
                 ELSE IF t.op = "push" THEN [cli.ui EXCEPT !.syncing = FALSE]
                 ELSE [cli.ui EXCEPT !.pullingId = Null]
       IN  UiStep(ui, RemoveAt(cli.running, i))

NextUi ==
    \/ \E page \in {"home", "assessment", "summary"} : Navigate(page)
    \/ \E tab \in {"all", "server"} : setFilter(tab)
    \/ handleSync
    \/ \E id \in ServerListIds : cli.ui.overwriteTarget = Null /\ handlePull(id)
    \/ ConfirmOverwrite
    \/ CancelOverwrite
    \/ \E i \in 1..MaxInFlight : TransferSettles(i)

SpecUi == InitUi /\ [][NextUi]_vars

\* C21 as stated: no two transfers that have started and not finished work on
\* the same assessment.
C21_OneTransferPerAssessment ==
    \A i, j \in DOMAIN cli.running :
        i # j => cli.running[i].id # cli.running[j].id

\* ------------------------------------------------------------------------
\* C22: the local synced_at of the assessment changes only when a Push ends
\* in success or a Pull stores the server's copy; a Push that fails leaves
\* it; the value a successful Push writes is the one the server answered
\* with, which is the synced_at of the remote row; and whenever it is not
\* null the Remote Store holds the assessment.
C22_SyncedAtFollowsServer ==
    /\ [][LocalRow'.synced_at # LocalRow.synced_at
             => \/ cli.pc = "uploading" /\ cli'.push = "ok"
                \/ cli.pc = "storing" /\ cli'.pc = "downloading"]_vars
    /\ [][(cli.pc = "posting" /\ cli'.push = "failed")
             => LocalRow'.synced_at = LocalRow.synced_at]_vars
    /\ [][(cli.pc = "uploading" /\ cli'.pc = "idle")
             => /\ LocalRow'.synced_at = cli.response.synced_at
                /\ LocalRow'.synced_at # Null
                /\ LocalRow'.synced_at = ThisRow(remote').synced_at]_vars
    /\ [](LocalRow.synced_at # Null
             => ThisAssessment \in {a.id : a \in remote.assessments})

\* a first Push has ended in success: the local synced_at is the remote one
C22_Witness ==
    /\ cli.pc = "idle"
    /\ cli.push = "ok"
    /\ cli.pull = "none"
    /\ LocalRow.synced_at # Null
    /\ LocalRow.synced_at = ThisRow(remote).synced_at
    /\ cli.snap.assessment[1].synced_at = Null

\* ------------------------------------------------------------------------
\* C23: in both stores, the zone_key, principle, item_order and item_text of
\* an ItemScore identity never change: a step leaves them as they were in
\* every row it keeps or writes again, and the two stores agree on them.
Structure(r) == <<r.assessment_id, r.zone_key, r.principle, r.item_order, r.item_text>>
ItemRowsOfBoth == local.item_scores \cup remote.item_scores
C23_ItemStructureIsFixed ==
    /\ [][\A r \in ItemRowsOfBoth : \A n \in local'.item_scores \cup remote'.item_scores :
             r.id = n.id => Structure(n) = Structure(r)]_vars
    /\ [](\A r, n \in ItemRowsOfBoth : r.id = n.id => Structure(n) = Structure(r))

\* after a score edit, a note edit or a photo, a Push and a Pull have both
\* ended in success and both stores hold the items with what the user entered
C23_Witness ==
    /\ cli.pc = "idle"
    /\ cli.push = "ok"
    /\ cli.pull = "ok"
    /\ cli.edits = 0
    /\ Cardinality(RowsOf(remote.item_scores, ThisAssessment)) = Len(DeviceItemZones)
    /\ \E r \in RowsOf(remote.item_scores, ThisAssessment) :
          r.score # Null /\ r.item_order > 0
    /\ \E r \in RowsOf(local.item_scores, ThisAssessment) :
          r.zone_key = DeviceZoneKeys[2]

\* ------------------------------------------------------------------------
\* C29 as stated: whenever no transfer is running, every id in the photo_ids
\* of a local item is the id of a local photo, and every local photo that
\* names an item is listed in that item's photo_ids.
SeqRange(seq) == {seq[k] : k \in DOMAIN seq}
C29_PhotoReferencesConsistent ==
    cli.pc = "idle"
        => /\ \A r \in RowsOf(local.item_scores, ThisAssessment) :
                 SeqRange(r.photo_ids) \subseteq {ph.id : ph \in LocalPhotos}
           /\ \A ph \in LocalPhotos :
                 ph.item_score_id # Null
                    => \E r \in RowsOf(local.item_scores, ThisAssessment) :
                          r.id = ph.item_score_id[1] /\ ph.id \in SeqRange(r.photo_ids)


\* ------------------------------------------------------------------------
\* The assessment right after NewAssessment.handleSubmit: the assessment and
\* its zone rows exist, the checklist is instantiated by the first mount of
\* the Assessment page.
InitOpen ==
    /\ \E dbOther \in SyncTransaction(EmptyDb, OtherBody, Clock(EmptyDb) + 1) :
          remote = WithPhoto(dbOther, OtherRowId, OtherAssessment)
    /\ req = NoRequest
    /\ txStep = 0
    /\ txDb = EmptyDb
    /\ resp = NoResponse
    /\ ScoringAtRest
    /\ local = NewAssessmentRows(EmptyDb, ThisAssessment, 1)
    /\ cli = [IdleClient EXCEPT !.edits = MaxEdits, !.pushes = MaxPushes]

SpecOpen == InitOpen /\ [][Next]_vars

\* the checklist entry an item row was made from
TemplateEntry(r) ==
    [zone_key |-> r.zone_key, principle |-> r.principle, item_text |-> r.item_text]

\* C25: in every reachable state of the local store, over creation, mounts
\* and unmounts of the Assessment page, edits, Pushes and Pulls, an assessment
\* has at most one item row per (zone, principle, item text) of the checklist
\* and at most one zone row per zone.
C25_TemplateExpandedOnce ==
    \A a \in local.assessments :
        /\ \A r1, r2 \in RowsOf(local.item_scores, a.id) :
              TemplateEntry(r1) = TemplateEntry(r2) => r1.id = r2.id
        /\ \A z1, z2 \in RowsOf(local.zone_scores, a.id) :
              z1.zone_key = z2.zone_key => z1.id = z2.id
        /\ Cardinality(RowsOf(local.item_scores, a.id)) <= Len(DeviceItemZones)

\* the checklist was instantiated by a mount, and the assessment was since
\* pushed and pulled back
C25_Witness ==
    /\ cli.pc = "idle"
    /\ cli.push = "ok"
    /\ cli.pull = "ok"
    /\ Cardinality(LocalItemIds) = Len(DeviceItemZones)
    /\ \E r \in local.item_scores : r.score # Null


\* ------------------------------------------------------------------------
\* Calls of syncAssessment that overlap.  A call is suspended at each await;
\* while it waits the pages go on handling the user's actions, and the user
\* can start a second call.  cli.waiting holds the call that is suspended,
\* the Push fields of cli the call that runs next.
MaxBusyEdits == 1
MaxBusyPushes == 2

\* the local variables of one call of syncAssessment
PushCall(c) ==
    [pc |-> c.pc, snap |-> c.snap, todo |-> c.todo, attempted |-> c.attempted,
     response |-> c.response, upload |-> c.upload, uploaded |-> c.uploaded,
     marked |-> c.marked]
Resumed(c, call) ==
    [c EXCEPT !.pc = call.pc, !.snap = call.snap, !.todo = call.todo,
              !.attempted = call.attempted, !.response = call.response,
              !.upload = call.upload, !.uploaded = call.uploaded,
              !.marked = call.marked]

\* an await of syncAssessment: the call that runs is suspended and the
\* suspended one, if any, goes on
SwitchPush ==
    /\ cli.pc \in {"idle", "posting", "uploading"}
    /\ cli.pc # "idle" \/ cli.waiting # <<>>
    /\ LET suspended == IF cli.pc = "idle" THEN <<>> ELSE <<PushCall(cli)>>
           next == IF cli.waiting = <<>> THEN [cli EXCEPT !.pc = "idle"]
                   ELSE Resumed(cli, cli.waiting[1])
       IN  cli' = [next EXCEPT !.waiting = suspended]
    /\ UNCHANGED local
    /\ UNCHANGED serverVars
    /\ UNCHANGED scoringVars

\* a scored assessment, in progress or marked complete, never pushed
InitBusy ==
    /\ \E dbOther \in SyncTransaction(EmptyDb, OtherBody, Clock(EmptyDb) + 1) :
          remote = WithPhoto(dbOther, OtherRowId, OtherAssessment)
    /\ req = NoRequest
    /\ txStep = 0
    /\ txDb = EmptyDb
    /\ resp = NoResponse
    /\ ScoringAtRest
    /\ \E status \in {"in_progress", "completed"} :
          LET created == InitialItemScores(
                             NewAssessmentRows(EmptyDb, ThisAssessment, 1),
                             ThisAssessment)
              marks == <<ItemMarks[3], ItemMarks[3], ItemMarks[4], ItemMarks[4]>>
              scored == persistAllScores(ScoreItems(created, marks, 1), ThisAssessment)
          IN  local = [scored EXCEPT !.assessments =
                          {[a EXCEPT !.status = status] : a \in @}]
    /\ cli = [IdleClient EXCEPT !.edits = MaxBusyEdits, !.pushes = MaxBusyPushes]

NextBusy ==
    \/ \E itemId \in LocalItemIds : \E value \in TappedScores : TapScore(itemId, value)
    \/ \E itemId \in LocalItemIds : TapNa(itemId)
    \/ \E itemId \in LocalItemIds : handleNotesChange(itemId, "note")
    \/ PersistTimerFires
    \/ UnmountAssessment
    \/ MountAssessment
    \/ handleMarkComplete
    \/ handleReopen
    \/ \E itemId \in LocalItemIds : savePhoto(itemId)
    \/ GatherSnapshot
    \/ PostSync
    \/ UploadNextPhoto
    \/ FinishSync
    \/ SwitchPush

SpecBusy == InitBusy /\ [][NextBusy]_vars


\* the step that ends a successful Push: the final write of syncAssessment
FinalWrite == cli.pc = "uploading" /\ cli'.pc = "idle" /\ cli'.waiting = cli.waiting

\* C27 as stated: the final write of a successful Push turns the status the
\* local assessment has at that moment from "completed" into "synced" and
\* leaves any other status as it is, whatever the status was when the Push
\* gathered its snapshot.
C27_PushKeepsUserStatus ==
    [][FinalWrite => LocalRow'.status = IF LocalRow.status = "completed"
                                        THEN "synced"
                                        ELSE LocalRow.status]_vars

\* the score, is_na and notes of the item rows of a store
ItemMarksOf(table) ==
    {[id |-> r.id, score |-> r.score, is_na |-> r.is_na, notes |-> r.notes]
     : r \in RowsOf(table, ThisAssessment)}

\* C24 as stated: once the edits have stopped and a Push that gathered the
\* current item rows has succeeded, with no call of syncAssessment left
\* running, the remote item rows of the assessment have the score, is_na and
\* notes of the local ones.
C24_EditsReachTheServer ==
    (/\ cli.pc = "idle"
     /\ cli.waiting = <<>>
     /\ cli.push = "ok"
     /\ cli.clean
     /\ cli.snap.item_scores = LocalItems)
        => ItemMarksOf(remote.item_scores) = ItemMarksOf(local.item_scores)


\* ------------------------------------------------------------------------
\* An assessment whose report fields are filled in: recommendations, quick
\* wins, notes and, for some assessments, the assessor's signature.
InitSigned ==
    /\ \E dbOther \in SyncTransaction(EmptyDb, OtherBody, Clock(EmptyDb) + 1) :
          remote = WithPhoto(dbOther, OtherRowId, OtherAssessment)
    /\ req = NoRequest
    /\ txStep = 0
    /\ txDb = EmptyDb
    /\ resp = NoResponse
    /\ ScoringAtRest
    /\ \E signature \in {Null, Some("signature")} :
          LET created == InitialItemScores(
                             NewAssessmentRows(EmptyDb, ThisAssessment, 1),
                             ThisAssessment)
              marks == <<ItemMarks[3], ItemMarks[3], ItemMarks[4], ItemMarks[4]>>
              scored == persistAllScores(ScoreItems(created, marks, 1), ThisAssessment)
          IN  local = [scored EXCEPT !.assessments =
                          {[a EXCEPT !.top_recommendations = <<"recommendation">>,
                                     !.quick_wins = <<"quick win">>,
                                     !.notes = "notes",
                                     !.assessor_signature = signature] : a \in @}]
    /\ cli = [IdleClient EXCEPT !.edits = MaxEdits, !.pushes = MaxPushes]

SpecSigned == InitSigned /\ [][Next]_vars

\* the fields of an assessment the user enters
UserFields(a) ==
    [address |-> a.address, notes |-> a.notes,
     top_recommendations |-> a.top_recommendations, quick_wins |-> a.quick_wins,
     assessor_signature |-> a.assessor_signature, created_at |-> a.created_at]

MaxRecEdits == 2
RecLists == {<<>>, <<"trim the hedge">>}

\* the items of one score, in the order of the item rows
ItemsScored(allItems, score) ==
    LET Has(r) == r.score = Some(score) IN SelectSeq(allItems, Has)
Take(seq, count) == SubSeq(seq, 1, IF Len(seq) < count THEN Len(seq) ELSE count)

\* generateRecommendations: the items scored 1 to 3, worst first, up to count
generateRecommendations(allItems, count) ==
    LET candidates == ItemsScored(allItems, 1) \o ItemsScored(allItems, 2)
                         \o ItemsScored(allItems, 3)
    IN  [i \in DOMAIN Take(candidates, count) |-> candidates[i].item_text]

\* generateQuickWins: no item of the checklist instantiated here has a
\* quick-win principle, so the wins are the items scored 3
generateQuickWins(allItems, count) ==
    LET combined == ItemsScored(allItems, 3)
    IN  [i \in DOMAIN Take(combined, count) |-> combined[i].item_text]

\* the Summary page is opened: persistAllScores, and the two lists are seeded
\* from the assessment
MountSummary ==
    /\ cli.pc = "idle"
    /\ ~cli.summary.mounted
    /\ local' = persistAllScores(local, ThisAssessment)
    /\ LET a == CHOOSE r \in local.assessments : r.id = ThisAssessment
       IN  cli' = [cli EXCEPT !.summary =
                      [@ EXCEPT !.mounted = TRUE,
                                !.recommendations = a.top_recommendations,
                                !.quickWins = a.quick_wins,
                                !.debounce = Null]]
    /\ UNCHANGED serverVars
    /\ UNCHANGED scoringVars

\* persistRecs: the pending timer is cleared and a new one is set
persistRecs(recs, qw) ==
    /\ cli' = [cli EXCEPT !.edits = @ - 1,
                          !.summary =
                              [@ EXCEPT !.recommendations = recs,
                                        !.quickWins = qw,
                                        !.debounce = Some([recs |-> recs, qw |-> qw]),
                                        !.entered = [recs |-> recs, qw |-> qw]]]
    /\ UNCHANGED local
    /\ UNCHANGED serverVars
    /\ UNCHANGED scoringVars

handleRecsChange(list) ==
    /\ cli.summary.mounted
    /\ cli.edits > 0
    /\ persistRecs(list, cli.summary.quickWins)

handleQuickWinsChange(list) ==
    /\ cli.summary.mounted
    /\ cli.edits > 0
    /\ persistRecs(cli.summary.recommendations, list)

handleAutoGenerate ==
    /\ cli.summary.mounted
    /\ cli.edits > 0
    /\ LET itemScores == SortById(RowsOf(local.item_scores, ThisAssessment))
       IN  persistRecs(generateRecommendations(itemScores, 5),
                       generateQuickWins(itemScores, 5))

\* the debounce timer fires, 500 ms after the last change
DebounceFires ==
    /\ cli.summary.debounce # Null
    /\ local' = [local EXCEPT !.assessments =
                    {IF a.id = ThisAssessment
                     THEN [a EXCEPT
                             !.top_recommendations = cli.summary.debounce[1].recs,
                             !.quick_wins = cli.summary.debounce[1].qw,
                             !.updated_at = DeviceNow(local)]
                     ELSE a : a \in @}]
    /\ cli' = [cli EXCEPT !.summary = [@ EXCEPT !.debounce = Null]]
    /\ UNCHANGED serverVars
    /\ UNCHANGED scoringVars

\* the page is left: the cleanup clears the pending timer
UnmountSummary ==
    /\ cli.summary.mounted
    /\ cli' = [cli EXCEPT !.summary = [@ EXCEPT !.mounted = FALSE,
                                                !.debounce = Null]]
    /\ UNCHANGED local
    /\ UNCHANGED serverVars
    /\ UNCHANGED scoringVars

\* a scored assessment with no recommendation yet, the Summary page closed
InitRecs ==
    /\ ServerAtRest
    /\ ScoringAtRest
    /\ \E worst \in {MinScore, MinScore + 2} :
          LET created == InitialItemScores(
                             NewAssessmentRows(EmptyDb, ThisAssessment, 1),
                             ThisAssessment)
              marks == <<[score |-> Some(worst), is_na |-> FALSE],
                         [score |-> Some(MinScore + 2), is_na |-> FALSE],
                         ItemMarks[4], ItemMarks[1]>>
          IN  local = ScoreItems(created, marks, 1)
    /\ cli = [IdleClient EXCEPT !.edits = MaxRecEdits]

NextRecs ==
    \/ MountSummary
    \/ \E list \in RecLists : handleRecsChange(list)
    \/ \E list \in RecLists : handleQuickWinsChange(list)
    \/ handleAutoGenerate
    \/ DebounceFires
    \/ UnmountSummary

\* a timer that is set and not cleared fires
SpecRecs == InitRecs /\ [][NextRecs]_vars /\ WF_vars(DebounceFires)

\* C26 as stated: the lists the user entered last on the Summary page
\* (through handleRecsChange, handleQuickWinsChange or handleAutoGenerate)
\* are eventually the top_recommendations and quick_wins of the local
\* assessment and stay so, also when the page is left before the debounce
\* delay has passed.
C26_RecsAreEventuallyWritten ==
    <>[](/\ LocalRow.top_recommendations = cli.summary.entered.recs
         /\ LocalRow.quick_wins = cli.summary.entered.qw)

=============================================================================
